---------------------------- MODULE Spec2Model ----------------------------
(***************************************************************************)
(* Model of zionnode/xray-admin: the reconciliation engine (package        *)
(* syncer), the control-plane client (package xray) and the state store    *)
(* (package store).                                                        *)
(*                                                                         *)
(* The engine modelled is the variant of src/unnamed/part_000 (lines       *)
(* 1-240): Sync keeps a working copy `state` and writes it back once with  *)
(* db.ReplaceAll.  The client is modelled in its two source variants:      *)
(* src/unnamed/part_001 (addUserAll skips "already exists", Remove stops   *)
(* at the first failing tag) and src/internal/xray/client.go (both calls   *)
(* visit every tag and join the errors).                                   *)
(*                                                                         *)
(* Two pieces of the repository are not in the sources and are modelled    *)
(* from the specification: DB.ReplaceAll, and the `reseed` parameter that  *)
(* src/cmd/xraysync/main.go passes to Sync.                                *)
(*                                                                         *)
(* Specifications:                                                         *)
(*   SpecDiff  the planning prologue of Sync (mode default, diff, reseed)  *)
(*             over a wide universe of records;                            *)
(*   Spec      a whole run of Sync (planning, dial, worker pool, retries,  *)
(*             state update, end-of-run persistence) and the plan of the   *)
(*             run that follows it on the same Store;                      *)
(*   SpecPerJob  the same run with the worker of                           *)
(*             src/internal/syncer/syncer.go, which calls db.Upsert and    *)
(*             db.Delete per job instead of one ReplaceAll at the end;     *)
(*   SpecClient  one call of xray.Client (AddVLESS, AddVMess or Remove)    *)
(*             over every combination of per-tag answers;                  *)
(*   SpecStore  one operation of store.DB (Upsert, Delete, Save) step by   *)
(*             step, with an I/O error or a crash at any step, and the     *)
(*             Open that follows;                                          *)
(*   SpecPool  the worker pool of Sync with up to three jobs, a full       *)
(*             channel and the progress goroutine; SpecPoolFair is the     *)
(*             same with weak fairness of the steps of the goroutines;     *)
(*   SpecConc  two goroutines calling Upsert, Delete and Snapshot of one   *)
(*             store.DB under DB.mu;                                       *)
(*   SpecSnap  the snapshot step of successive Sync calls against a wall   *)
(*             clock read in whole seconds;                                *)
(*   SpecMain  the processes of xraysync (one shot or polling) and of      *)
(*             xrayctl bulk-add, up to their exit status;                  *)
(*   SpecUpd   a run of Sync in which the control plane is followed tag    *)
(*             by tag through the legs of the job of one user;             *)
(*   SpecPoll  the polls of xraysync over an unchanged feed: the VLESS,    *)
(*             REALITY and VMESS runs of runOnce on the Stores dbV, dbM;   *)
(*   SpecBulk  batch.RunBulk (src/unnamed/part_002) row by row and attempt *)
(*             by attempt; SpecBulkFair is the same with weak fairness of  *)
(*             its steps.                                                  *)
(***************************************************************************)
EXTENDS Integers, Sequences, FiniteSets, TLC

VARIABLES
    dbUsers,      \* store.DB.Users: the Applied Set held by the Store
    target,       \* Sync's parameter target: the Desired Set
    mode,         \* Sync's parameter mode, after the default of line 31-33
    concurrency,  \* Sync's parameter concurrency, after the floor of line 34-36
    reseed,       \* the reseed flag main.go passes to Sync
    client,       \* which source variant of xray.Client is linked
    pc,           \* position of the goroutine running Sync
    again,        \* FALSE in the first Sync call on this Store, TRUE in the
                  \* call that follows it (explored up to its plan and dial)
    prev,         \* Sync's local prev (db.Snapshot())
    adds,         \* diff's result adds (a sequence of users)
    upds,         \* diff's result upds (a sequence of updatePair)
    dels,         \* diff's result dels (a sequence of users)
    fed,          \* how many jobs the feed loops have sent
    jobs,         \* the buffered channel jobs
    closed,       \* whether close(jobs) has run
    wk,           \* the worker goroutines
    state,        \* Sync's working copy of the Applied Set
    stateMu,      \* holder of stateMu (0: free)
    processed,    \* atomic counter processed
    okAdd,        \* atomic counter okAdd
    okUpd,        \* atomic counter okUpd
    okDel,        \* atomic counter okDel
    failed,       \* atomic counter failed
    ret,          \* what the last finished Sync call returned
    prevRet,      \* what the Sync call before that returned
    issued,       \* history: the client calls issued during this run
    outcome,      \* history: how the job of each ID ended during this run
    snapshot,     \* the files of snapDir this Sync call has written
    rpc,          \* one call of the client, taken alone: its operation, the
                  \* answers of the tags and, once it returned, its result
    disk,         \* the files of the Store: the file at DB.path, the file at
                  \* DB.path + ".tmp", and the operation that is saving
    proc,         \* the process of a command (xraysync, xrayctl bulk-add)
    reporter,     \* the progress goroutine of Sync (lines 72-92)
    clock,        \* time.Now().Unix(): the wall clock, in seconds
    snapDir,      \* the files of snapDir, over all Sync calls of the process
    snapRuns,     \* history: how many Sync calls reached the snapshot step
    callers,      \* the goroutines that call methods of one store.DB
    mu,           \* holder of DB.mu (0: free)
    plane,        \* the control plane: the user each tag holds under the ID
                  \* of the job that is followed
    legs,         \* history: the client calls of that job, each with the leg,
                  \* the user sent and the class of the error returned
    dbM,          \* the Users of xraysync's second Store, dbM (dbUsers then
                  \* stands for those of dbV)
    defFlow,      \* xraysync's flag -flow
    retries       \* RunBulk's parameter retries (xrayctl's flag -retries)

vars == << dbUsers, target, mode, concurrency, reseed, client, pc, again, prev,
           adds, upds, dels, fed, jobs, closed, wk, state, stateMu,
           processed, okAdd, okUpd, okDel, failed, ret, prevRet, issued,
           outcome, snapshot, rpc, disk,
           proc, reporter, clock, snapDir, snapRuns, callers, mu,
           plane, legs, dbM, defFlow, retries >>

-----------------------------------------------------------------------------
(* Bounds of the model *)

MaxConcurrency == 2   \* largest configured concurrency explored
NTags == 2            \* number of inbound tags the client fans out to

(* Program constants *)

RetryBudget == 3      \* withRetry(3, ...)
QueueFactor == 2      \* make(chan job, concurrency*2)

-----------------------------------------------------------------------------
(* Data model: store.User.  Email always equals UID (buildUsers sets both   *)
(* from the feed's email), so one field UID stands for both.                *)

IDs == {"a", "b"}
WideIDs == {"a", "b", "c"}
UUIDs == {"u1", "u2"}
Protos == {"vless", "vmess"}
Flows == {"", "xtls-rprx-vision"}

User(id, uuid, proto, level, flow) ==
    [UID |-> id, UUID |-> uuid, Proto |-> proto, Level |-> level, Flow |-> flow]

\* The zero value of store.User (unused fields of a job).
ZeroUser == User("", "", "", 0, "")

\* Every record of one ID over all four diffed fields.
AllUsers(id) ==
    { User(id, uu, p, l, f) : uu \in UUIDs, p \in Protos, l \in {0, 1}, f \in Flows }

\* The records explored for one ID, by universe:
\*   "stored"       whole runs, the Store: two records that differ in the UUID;
\*   "feed"         whole runs, the feed: one record (buildUsers gives every
\*                  user of a run the same protocol, level and flow);
\*   "wideStored"   the plan alone, the Store: every record for "a";
\*   "wideDesired"  the plan alone, the feed: one record per protocol for "a".
UsersOf(id, universe) ==
    IF universe = "stored" THEN { User(id, uu, "vless", 1, "") : uu \in UUIDs }
    ELSE IF universe = "wideStored" /\ id = "a" THEN AllUsers(id)
    ELSE IF universe = "wideDesired" /\ id = "a"
         THEN { User(id, "u1", p, 1, "") : p \in Protos }
    ELSE { User(id, "u1", "vless", 1, "") }

\* All maps keyed by a subset of ids, each ID holding one of its records.
Maps(ids, universe) ==
    UNION { { m \in [S -> UNION { UsersOf(i, universe) : i \in S }] :
                \A i \in S : m[i] \in UsersOf(i, universe) }
            : S \in SUBSET ids }

\* All orders in which a Go range loop can visit the keys ids.
Perms(ids) ==
    { s \in [1..Cardinality(ids) -> ids] : \A i \in ids : \E k \in DOMAIN s : s[k] = i }

Range(s) == { s[i] : i \in DOMAIN s }

RunOrders == Perms(WideIDs)
WideOrders == Perms(WideIDs)

-----------------------------------------------------------------------------
(* Mode strings *)

Modes == {"replace", "upsert", "", " ", "Replace", "other"}

\* strings.TrimSpace(mode) == ""
IsBlank(m) == m \in {"", " "}

\* strings.EqualFold(mode, "replace")
EqualFoldReplace(m) == m \in {"replace", "Replace", "REPLACE"}

\* Sync, lines 31-33: a blank mode becomes "replace".
DefaultMode(m) == IF IsBlank(m) THEN "replace" ELSE m

\* Sync, lines 34-36: a concurrency <= 0 becomes 1.
FloorConcurrency(c) == IF c <= 0 THEN 1 ELSE c

-----------------------------------------------------------------------------
(* diff and changed *)

\* changed compares Flow without looking at the protocol.
changed(a, b) ==
    a.UUID # b.UUID \/ a.Proto # b.Proto \/ a.Level # b.Level \/ a.Flow # b.Flow

\* The keys of map m in the order a range loop visiting `order` meets them.
KeysIn(m, order) == SelectSeq(order, LAMBDA k : k \in DOMAIN m)

Pair(o, n) == [old |-> o, new |-> n]

\* A diff that forgets the "absent from target" test of the delete loop.
diffDelsAll(p, t, m, tOrder, pOrder) ==
    LET tk == KeysIn(t, tOrder)
        pk == KeysIn(p, pOrder)
        ak == SelectSeq(tk, LAMBDA k : k \notin DOMAIN p)
        uk == SelectSeq(tk, LAMBDA k : k \in DOMAIN p /\ changed(p[k], t[k]))
        dk == IF EqualFoldReplace(m) THEN pk ELSE << >>
    IN  [adds |-> [i \in 1..Len(ak) |-> t[ak[i]]],
         upds |-> [i \in 1..Len(uk) |-> Pair(p[uk[i]], t[uk[i]])],
         dels |-> [i \in 1..Len(dk) |-> p[dk[i]]]]

\* A diff that runs the delete loop in every mode.
diffDelsAnyMode(p, t, m, tOrder, pOrder) ==
    LET tk == KeysIn(t, tOrder)
        pk == KeysIn(p, pOrder)
        ak == SelectSeq(tk, LAMBDA k : k \notin DOMAIN p)
        uk == SelectSeq(tk, LAMBDA k : k \in DOMAIN p /\ changed(p[k], t[k]))
        dk == SelectSeq(pk, LAMBDA k : k \notin DOMAIN t)
    IN  [adds |-> [i \in 1..Len(ak) |-> t[ak[i]]],
         upds |-> [i \in 1..Len(uk) |-> Pair(p[uk[i]], t[uk[i]])],
         dels |-> [i \in 1..Len(dk) |-> p[dk[i]]]]

\* A diff that schedules no Add for an ID missing from prev.
diffNoAdds(p, t, m, tOrder, pOrder) ==
    LET tk == KeysIn(t, tOrder)
        pk == KeysIn(p, pOrder)
        uk == SelectSeq(tk, LAMBDA k : k \in DOMAIN p /\ changed(p[k], t[k]))
        dk == IF EqualFoldReplace(m)
              THEN SelectSeq(pk, LAMBDA k : k \notin DOMAIN t) ELSE << >>
    IN  [adds |-> << >>,
         upds |-> [i \in 1..Len(uk) |-> Pair(p[uk[i]], t[uk[i]])],
         dels |-> [i \in 1..Len(dk) |-> p[dk[i]]]]

\* diff(prev, target, mode): the first loop ranges over target (order tOrder),
\* the second, in replace mode only, over prev (order pOrder).
diff(p, t, m, tOrder, pOrder) ==
    LET tk == KeysIn(t, tOrder)
        pk == KeysIn(p, pOrder)
        ak == SelectSeq(tk, LAMBDA k : k \notin DOMAIN p)
        uk == SelectSeq(tk, LAMBDA k : k \in DOMAIN p /\ changed(p[k], t[k]))
        dk == IF EqualFoldReplace(m)
              THEN SelectSeq(pk, LAMBDA k : k \notin DOMAIN t) ELSE << >>
    IN  [adds |-> [i \in 1..Len(ak) |-> t[ak[i]]],
         upds |-> [i \in 1..Len(uk) |-> Pair(p[uk[i]], t[uk[i]])],
         dels |-> [i \in 1..Len(dk) |-> p[dk[i]]]]

\* The plan of a run.  With reseed every desired ID that diff left without a
\* job is scheduled as an Add and no Delete is scheduled.
plan(p, t, m, rs, tOrder, pOrder) ==
    LET d  == diff(p, t, m, tOrder, pOrder)
        nk == SelectSeq(KeysIn(t, tOrder),
                        LAMBDA k : k \in DOMAIN p /\ ~changed(p[k], t[k]))
    IN  IF rs
        THEN [adds |-> d.adds \o [i \in 1..Len(nk) |-> t[nk[i]]],
              upds |-> d.upds,
              dels |-> << >>]
        ELSE d

\* The IDs of the jobs of each kind.
AddIDs == { adds[i].UID : i \in DOMAIN adds }
UpdIDs == { upds[i].new.UID : i \in DOMAIN upds }
DelIDs == { dels[i].UID : i \in DOMAIN dels }

\* No ID occurs twice in a sequence of IDs.
NoRepeat(s) == \A i, j \in DOMAIN s : i # j => s[i] # s[j]

-----------------------------------------------------------------------------
(* Control-plane client.  One client call fans out to the tags 1..NTags;    *)
(* outs[i] is the outcome of AlterInbound on tag i.  A call returns         *)
(*   err     "nil", or the class of the error returned: "exists" /          *)
(*           "notfound" when every tag named in it failed that way,         *)
(*           "err" otherwise;                                               *)
(*   calls   how many tags were called;                                     *)
(*   tol     whether an "already exists" answer was skipped;                *)
(*   errTags the tags named in the error.                                   *)

Clients == {"part001", "internal"}
AddOutcomes == {"ok", "exists", "err"}
RemoveOutcomes == {"ok", "notfound", "err"}
Tags == 1..NTags

\* alreadyExists(err): the message holds "already" or "exists"; the answer
\* "exists" stands for every error with such a message.
alreadyExists(o) == o = "exists"

\* The first tag whose outcome is an error that is not skipped (0: none).
FirstErr(outs, skipped) ==
    LET bad == { i \in DOMAIN outs : outs[i] # "ok" /\ outs[i] \notin skipped }
    IN  IF bad = {} THEN 0 ELSE CHOOSE i \in bad : \A k \in bad : i <= k

\* The class of an error that names the tags bad.
ErrClass(outs, bad) ==
    IF \A i \in bad : outs[i] = "exists" THEN "exists"
    ELSE IF \A i \in bad : outs[i] = "notfound" THEN "notfound"
    ELSE "err"

\* src/unnamed/part_001: addUserAll skips "already exists" and returns at
\* the first other error.
addUserAllPart001(outs) ==
    LET i == FirstErr(outs, { o \in AddOutcomes : alreadyExists(o) })
        n == IF i = 0 THEN Len(outs) ELSE i
    IN  [err     |-> IF i = 0 THEN "nil" ELSE ErrClass(outs, {i}),
         calls   |-> n,
         tol     |-> \E k \in 1..n : outs[k] = "exists",
         errTags |-> IF i = 0 THEN {} ELSE {i}]

\* src/unnamed/part_001: Remove returns at the first error.
RemovePart001(outs) ==
    LET i == FirstErr(outs, {})
    IN  [err     |-> IF i = 0 THEN "nil" ELSE ErrClass(outs, {i}),
         calls   |-> IF i = 0 THEN Len(outs) ELSE i,
         tol     |-> FALSE,
         errTags |-> IF i = 0 THEN {} ELSE {i}]

\* A fan-out that keeps only the error of the last tag.
fanOutKeepsLastError(outs) ==
    LET bad == { i \in DOMAIN outs : outs[i] # "ok" /\ i = Len(outs) }
    IN  [err     |-> IF bad = {} THEN "nil" ELSE ErrClass(outs, bad),
         calls   |-> Len(outs),
         tol     |-> FALSE,
         errTags |-> bad]

\* src/internal/xray/client.go: addUserAll and Remove call every tag and
\* join the errors of all failing tags.
fanOutInternal(outs) ==
    LET bad == { i \in DOMAIN outs : outs[i] # "ok" }
    IN  [err     |-> IF bad = {} THEN "nil" ELSE ErrClass(outs, bad),
         calls   |-> Len(outs),
         tol     |-> FALSE,
         errTags |-> bad]

addUserAll(c, outs) ==
    IF c = "part001" THEN addUserAllPart001(outs) ELSE fanOutInternal(outs)

Remove(c, outs) ==
    IF c = "part001" THEN RemovePart001(outs) ELSE fanOutInternal(outs)

\* The result of a call that issues no RPC and fails.
LocalError == [err |-> "err", calls |-> 0, tol |-> FALSE, errTags |-> {}]

\* syncer.addUser: AddVLESS or AddVMess by protocol, an error otherwise.
addUser(c, u, outs) ==
    IF u.Proto \in {"vless", "vmess"} THEN addUserAll(c, outs) ELSE LocalError

\* One client call taken alone: op is "add" or "remove", proto the protocol
\* of the user of an add, outs the answers of the tags, res the result, and
\* returned whether the call has returned.
ClientCall(op, proto, outs, res, returned) ==
    [op |-> op, proto |-> proto, outs |-> outs, res |-> res, returned |-> returned]
NoCall == ClientCall("", "", << >>, LocalError, FALSE)


-----------------------------------------------------------------------------
(* Jobs, workers and the Store *)

Job(typ, u, o, n) == [typ |-> typ, u |-> u, old |-> o, new |-> n]
ZeroJob == Job("", ZeroUser, ZeroUser, ZeroUser)

\* The ID a job is about.
JobID(j) == IF j.typ = "upd" THEN j.new.UID ELSE j.u.UID

\* A feed that sends the Delete jobs first.
FeedListDelsFirst(a, u, d, m) ==
    (IF EqualFoldReplace(m)
     THEN [i \in 1..Len(d) |-> Job("del", d[i], ZeroUser, ZeroUser)]
     ELSE << >>)
    \o [i \in 1..Len(a) |-> Job("add", a[i], ZeroUser, ZeroUser)]
    \o [i \in 1..Len(u) |-> Job("upd", ZeroUser, u[i].old, u[i].new)]

\* A feed whose delete loop runs only when the mode is spelled "replace".
FeedListExactMode(a, u, d, m) ==
    [i \in 1..Len(a) |-> Job("add", a[i], ZeroUser, ZeroUser)]
    \o [i \in 1..Len(u) |-> Job("upd", ZeroUser, u[i].old, u[i].new)]
    \o (IF m = "replace"
        THEN [i \in 1..Len(d) |-> Job("del", d[i], ZeroUser, ZeroUser)]
        ELSE << >>)

\* The jobs in the order the three feed loops send them (lines 155-165);
\* the delete loop runs in replace mode only.
FeedList(a, u, d, m) ==
    [i \in 1..Len(a) |-> Job("add", a[i], ZeroUser, ZeroUser)]
    \o [i \in 1..Len(u) |-> Job("upd", ZeroUser, u[i].old, u[i].new)]
    \o (IF EqualFoldReplace(m)
        THEN [i \in 1..Len(d) |-> Job("del", d[i], ZeroUser, ZeroUser)]
        ELSE << >>)

\* totalJobs := len(adds) + len(upds) + len(dels)
totalJobs == Len(adds) + Len(upds) + Len(dels)

Workers == 1..MaxConcurrency

Worker(p, j, i, leg, e, tol) ==
    [pc |-> p, job |-> j, i |-> i, leg |-> leg, e |-> e, tol |-> tol]
OffWorker == Worker("off", ZeroJob, 0, "", "nil", FALSE)
IdleWorker == Worker("recv", ZeroJob, 0, "", "nil", FALSE)

\* The first RPC leg of one attempt of a job.
FirstLeg(j) == IF j.typ = "add" THEN "add" ELSE "remove"

\* The user the add leg of a job sends.
AddArg(j) == IF j.typ = "upd" THEN j.new ELSE j.u

\* A working copy that keeps the user of a successful Delete job.
ApplyJobKeepsDeleted(st, j) ==
    IF j.typ = "add" THEN [k \in DOMAIN st \cup {j.u.UID} |->
                             IF k = j.u.UID THEN j.u ELSE st[k]]
    ELSE IF j.typ = "upd" THEN [k \in DOMAIN st \cup {j.new.UID} |->
                             IF k = j.new.UID THEN j.new ELSE st[k]]
    ELSE st

\* A working copy that stores the old record of a successful Update job.
ApplyJobStoresOld(st, j) ==
    IF j.typ = "add" THEN [k \in DOMAIN st \cup {j.u.UID} |->
                             IF k = j.u.UID THEN j.u ELSE st[k]]
    ELSE IF j.typ = "upd" THEN [k \in DOMAIN st \cup {j.new.UID} |->
                             IF k = j.new.UID THEN j.old ELSE st[k]]
    ELSE IF j.typ = "del" THEN [k \in DOMAIN st \ {j.u.UID} |-> st[k]]
    ELSE st

\* The working copy after a successful job (lines 103, 116, 124).
ApplyJob(st, j) ==
    IF j.typ = "add" THEN [k \in DOMAIN st \cup {j.u.UID} |->
                             IF k = j.u.UID THEN j.u ELSE st[k]]
    ELSE IF j.typ = "upd" THEN [k \in DOMAIN st \cup {j.new.UID} |->
                             IF k = j.new.UID THEN j.new ELSE st[k]]
    ELSE IF j.typ = "del" THEN [k \in DOMAIN st \ {j.u.UID} |-> st[k]]
    ELSE st

\* DB.Snapshot: a copy of Users.
Snapshot(users) == users

\* A write-back that adds the given map to the Store and removes nothing.
ReplaceAllMerges(users, st) ==
    [k \in DOMAIN users \cup DOMAIN st |->
        IF k \in DOMAIN st THEN st[k] ELSE users[k]]

\* DB.ReplaceAll(state): the Store holds exactly the given map.
ReplaceAll(users, st) == st

Summary(a, u, d, f, err) ==
    [Added |-> a, Updated |-> u, Removed |-> d, Failed |-> f, err |-> err]
NoSummary == Summary(0, 0, 0, 0, FALSE)

EmptyMap == [k \in {} |-> ZeroUser]
NoOutcome == [k \in {} |-> ""]

(* The files of the Store *)

\* A file.  kind is "absent", "empty", "partial" (the first bytes of an
\* encoding) or "full"; a full file holds one JSON object: top is the set of
\* its top-level keys and users the mapping it encodes.
File(kind, top, users) == [kind |-> kind, top |-> top, users |-> users]
Absent == File("absent", {}, EmptyMap)
EmptyFile == File("empty", {}, EmptyMap)
Truncated == File("partial", {}, EmptyMap)

\* enc.Encode(d) in DB.save: of the fields of DB only Users is exported, with
\* the tag "users": the object {"users": {uid: user, ...}}.
EncodeDB(users) == File("full", {"users"}, users)

\* json.MarshalIndent(m) in DB.Save: the object {uid: user, ...}.
EncodeMap(m) == File("full", DOMAIN m, m)

\* store.Open: Users starts as the empty map and Decode(db) fills it from
\* the key "users" of the object; a missing file or a decoding error leaves
\* it empty.  (No UID of the model is "users".)
Open(f) == IF f.kind = "full" /\ "users" \in f.top THEN f.users ELSE EmptyMap

\* d.Users[u.UID] = u
upsert(users, u) ==
    [k \in DOMAIN users \cup {u.UID} |-> IF k = u.UID THEN u ELSE users[k]]

\* delete(d.Users, uid)
delete(users, uid) == [k \in DOMAIN users \ {uid} |-> users[k]]

\* The files and the operation in progress: path is the file at DB.path, tmp
\* the file at DB.path + ".tmp", data the encoding being saved, old the file
\* at DB.path when the operation began, want the mapping the operation is to
\* leave in the file, renamed whether os.Rename has run.
Disk(path, tmp, op, data, old, want, renamed) ==
    [path |-> path, tmp |-> tmp, op |-> op, data |-> data, old |-> old,
     want |-> want, renamed |-> renamed]
NoDisk == Disk(Absent, Absent, "", Absent, Absent, EmptyMap, FALSE)

\* A save that creates the file at DB.path itself.
createInPlace(d) == [d EXCEPT !.path = EmptyFile]

\* os.Create(tmp) (store.go:42; inside os.WriteFile at exported.go:34).
createTmp(d) == [d EXCEPT !.tmp = EmptyFile]

\* The encoding reaches the temporary file in two writes.
writeSome(d) == [d EXCEPT !.tmp = Truncated]
writeRest(d) == [d EXCEPT !.tmp = d.data]

\* os.Rename(tmp, d.path): the file at DB.path is replaced in one step.
rename(d) == [d EXCEPT !.path = d.tmp, !.tmp = Absent, !.renamed = TRUE]

\* The steps of a save during which it can fail or the process can crash.
SaveSteps == {"create", "write", "writing", "close", "rename"}

-----------------------------------------------------------------------------
(* Initial values of the parts of the state that one specification each    *)
(* brings into play.                                                        *)

\* The process of a command: cmd is the command, interval the flag -interval
\* of xraysync, polls how often runOnce has run, tags the kinds of tags of the
\* last fetch, sums what the Sync calls of the process returned, rows the
\* number of rows of bulk-add, ok and fail what RunBulk returned, status the
\* exit status (-1 while the process runs).
Proc(cmd, interval, polls, tags, sums, rows, ok, fail, status) ==
    [cmd |-> cmd, interval |-> interval, polls |-> polls, tags |-> tags,
     sums |-> sums, rows |-> rows, ok |-> ok, fail |-> fail, status |-> status]
NoProc == Proc("", 0, 0, {}, << >>, 0, 0, 0, -1)

\* The progress goroutine: its position and how often it has logged.
Reporter(p, logged) == [pc |-> p, logged |-> logged]
NoReporter == Reporter("off", 0)

\* The files of snapDir: current is the content of current.json, a revision
\* and a payload (revision -1: no such file), and stamped maps the timestamp
\* of each file snapshot-<timestamp>.json to its content, a payload.
SnapDir(current, stamped) == [current |-> current, stamped |-> stamped]
Current(revision, payload) == [revision |-> revision, payload |-> payload]
NoCurrent == Current(-1, "")

\* A directory without files.
EmptyDir == SnapDir(NoCurrent, [t \in {} |-> ""])

\* No goroutine is calling the Store.
NoCallers == << >>

\* A control plane that is not looked at.
NoPlane == << >>

-----------------------------------------------------------------------------
(* Sync: the goroutine that runs the call *)

\* A Sync that copies prev into state and starts the workers before it
\* looks at the error of NewClient.
SyncStartDialsLate ==
    /\ pc = "start"
    /\ \E tOrder \in RunOrders, pOrder \in RunOrders, dialOK \in BOOLEAN :
         LET m == DefaultMode(mode)
             c == FloorConcurrency(concurrency)
             p == Snapshot(dbUsers)
             d == diff(p, target, m, tOrder, pOrder)
             n == Len(d.adds) + Len(d.upds) + Len(d.dels)
         IN  /\ mode' = m
             /\ concurrency' = c
             /\ prev' = p
             /\ adds' = d.adds
             /\ upds' = d.upds
             /\ dels' = d.dels
             /\ state' = p
             /\ wk' = [w \in Workers |->
                        IF n > 0 /\ w <= c THEN IdleWorker ELSE OffWorker]
             /\ IF dialOK
                THEN pc' = "feed" /\ UNCHANGED ret
                ELSE pc' = "done" /\ ret' = Summary(0, 0, 0, 0, TRUE)
    /\ UNCHANGED << dbUsers, target, reseed, client, again, fed, jobs, closed,
                    stateMu, processed, okAdd, okUpd, okDel, failed, prevRet,
                    issued, outcome,
                    snapshot, rpc, disk,
                    proc, reporter, clock, snapDir, snapRuns, callers, mu,
                    plane, legs, dbM, defFlow, retries >>

\* Lines 31-49: mode default, concurrency floor, diff against the Store's
\* snapshot, then the dial, which fails the call before anything is started.
SyncStart ==
    /\ pc = "start"
    /\ \E tOrder \in RunOrders, pOrder \in RunOrders, dialOK \in BOOLEAN :
         LET m == DefaultMode(mode)
             c == FloorConcurrency(concurrency)
             p == Snapshot(dbUsers)
             d == diff(p, target, m, tOrder, pOrder)
             n == Len(d.adds) + Len(d.upds) + Len(d.dels)
         IN  /\ mode' = m
             /\ concurrency' = c
             /\ prev' = p
             /\ adds' = d.adds
             /\ upds' = d.upds
             /\ dels' = d.dels
             /\ IF dialOK
                THEN /\ pc' = "feed"
                     /\ state' = p
                     /\ wk' = [w \in Workers |->
                                IF n > 0 /\ w <= c THEN IdleWorker ELSE OffWorker]
                     /\ UNCHANGED ret
                ELSE /\ pc' = "done"
                     /\ ret' = Summary(0, 0, 0, 0, TRUE)
                     /\ UNCHANGED << state, wk >>
    /\ UNCHANGED << dbUsers, target, reseed, client, again, fed, jobs, closed,
                    stateMu, processed, okAdd, okUpd, okDel, failed, prevRet,
                    issued, outcome,
                    snapshot, rpc, disk,
                    proc, reporter, clock, snapDir, snapRuns, callers, mu,
                    plane, legs, dbM, defFlow, retries >>

\* A feed loop whose send never blocks.
FeedUnbounded ==
    /\ pc = "feed"
    /\ ~again
    /\ fed < Len(FeedList(adds, upds, dels, mode))
    /\ jobs' = Append(jobs, FeedList(adds, upds, dels, mode)[fed + 1])
    /\ fed' = fed + 1
    /\ UNCHANGED << dbUsers, target, mode, concurrency, reseed, client, pc, again,
                    prev, adds, upds, dels, closed, wk, state, stateMu,
                    processed, okAdd, okUpd, okDel, failed, ret, prevRet, issued,
                    outcome, snapshot, rpc, disk,
                    proc, reporter, clock, snapDir, snapRuns, callers, mu,
                    plane, legs, dbM, defFlow, retries >>

\* Lines 155-165: one send on the channel; it blocks while the buffer is full.
Feed ==
    /\ pc = "feed"
    /\ ~again
    /\ fed < Len(FeedList(adds, upds, dels, mode))
    /\ Len(jobs) < QueueFactor * concurrency
    /\ jobs' = Append(jobs, FeedList(adds, upds, dels, mode)[fed + 1])
    /\ fed' = fed + 1
    /\ UNCHANGED << dbUsers, target, mode, concurrency, reseed, client, pc, again,
                    prev, adds, upds, dels, closed, wk, state, stateMu,
                    processed, okAdd, okUpd, okDel, failed, ret, prevRet, issued,
                    outcome,
                    snapshot, rpc, disk,
                    proc, reporter, clock, snapDir, snapRuns, callers, mu,
                    plane, legs, dbM, defFlow, retries >>

\* A feed that ends without close(jobs).
CloseJobsForgotten ==
    /\ pc = "feed"
    /\ ~again
    /\ fed = Len(FeedList(adds, upds, dels, mode))
    /\ closed' = closed
    /\ pc' = "wait"
    /\ UNCHANGED << dbUsers, target, mode, concurrency, reseed, client, again, prev,
                    adds, upds, dels, fed, jobs, wk, state, stateMu,
                    processed, okAdd, okUpd, okDel, failed, ret, prevRet, issued,
                    outcome, snapshot, rpc, disk,
                    proc, reporter, clock, snapDir, snapRuns, callers, mu,
                    plane, legs, dbM, defFlow, retries >>

\* Line 166: close(jobs), after the last send.
CloseJobs ==
    /\ pc = "feed"
    /\ ~again
    /\ fed = Len(FeedList(adds, upds, dels, mode))
    /\ closed' = TRUE
    /\ pc' = "wait"
    /\ UNCHANGED << dbUsers, target, mode, concurrency, reseed, client, again, prev,
                    adds, upds, dels, fed, jobs, wk, state, stateMu,
                    processed, okAdd, okUpd, okDel, failed, ret, prevRet, issued,
                    outcome,
                    snapshot, rpc, disk,
                    proc, reporter, clock, snapDir, snapRuns, callers, mu,
                    plane, legs, dbM, defFlow, retries >>

\* Line 168: wg.Wait() returns when every started worker has called Done.
WaitWorkers ==
    /\ pc = "wait"
    /\ \A w \in Workers : wk[w].pc \in {"off", "exit"}
    /\ pc' = "persist"
    /\ UNCHANGED << dbUsers, target, mode, concurrency, reseed, client, again, prev,
                    adds, upds, dels, fed, jobs, closed, wk, state, stateMu,
                    processed, okAdd, okUpd, okDel, failed, ret, prevRet, issued,
                    outcome,
                    snapshot, rpc, disk,
                    proc, reporter, clock, snapDir, snapRuns, callers, mu,
                    plane, legs, dbM, defFlow, retries >>

\* Lines 171-174: the single write of the working copy to the Store.
Persist ==
    /\ pc = "persist"
    /\ dbUsers' = ReplaceAll(dbUsers, state)
    /\ pc' = "snap"
    /\ UNCHANGED << target, mode, concurrency, reseed, client, again, prev,
                    adds, upds, dels, fed, jobs, closed, wk, state, stateMu,
                    processed, okAdd, okUpd, okDel, failed, ret, prevRet, issued,
                    outcome,
                    snapshot, rpc, disk,
                    proc, reporter, clock, snapDir, snapRuns, callers, mu,
                    plane, legs, dbM, defFlow, retries >>

\* The two files of the snapshot step: current.json, which wraps the raw
\* payload with a revision, and snapshot-<timestamp>.json, the raw payload.
\* The value of the timestamp is not modelled.
SnapshotFiles == {"current.json", "snapshot-TS.json"}

\* Lines 176-182: the snapshot of the raw input, written after the Store.
WriteSnapshot ==
    /\ pc = "snap"
    /\ snapshot' = snapshot \cup SnapshotFiles
    /\ pc' = "return"
    /\ UNCHANGED << dbUsers, target, mode, concurrency, reseed, client, again, prev,
                    adds, upds, dels, fed, jobs, closed, wk, state, stateMu,
                    processed, okAdd, okUpd, okDel, failed, ret, prevRet, issued,
                    outcome, rpc, disk,
                    proc, reporter, clock, snapDir, snapRuns, callers, mu,
                    plane, legs, dbM, defFlow, retries >>

\* A Sync that returns an error when a job has failed.
SyncReturnErrorOnFailed ==
    /\ pc = "return"
    /\ ret' = Summary(okAdd, okUpd, okDel, failed, failed > 0)
    /\ pc' = "done"
    /\ UNCHANGED << dbUsers, target, mode, concurrency, reseed, client, again, prev,
                    adds, upds, dels, fed, jobs, closed, wk, state, stateMu,
                    processed, okAdd, okUpd, okDel, failed, prevRet, issued,
                    outcome, snapshot, rpc, disk,
                    proc, reporter, clock, snapDir, snapRuns, callers, mu,
                    plane, legs, dbM, defFlow, retries >>

\* Lines 184-193: the Summary is read from the counters and returned.
SyncReturn ==
    /\ pc = "return"
    /\ ret' = Summary(okAdd, okUpd, okDel, failed, FALSE)
    /\ pc' = "done"
    /\ UNCHANGED << dbUsers, target, mode, concurrency, reseed, client, again, prev,
                    adds, upds, dels, fed, jobs, closed, wk, state, stateMu,
                    processed, okAdd, okUpd, okDel, failed, prevRet, issued,
                    outcome,
                    snapshot, rpc, disk,
                    proc, reporter, clock, snapDir, snapRuns, callers, mu,
                    plane, legs, dbM, defFlow, retries >>

\* The caller's next poll: Sync is called again on the same Store with the
\* same Desired Set and mode (xraysync's runOnce loop).
NextRun ==
    /\ pc = "done"
    /\ ~again
    /\ again' = TRUE
    /\ pc' = "start"
    /\ prevRet' = ret
    /\ ret' = NoSummary
    /\ prev' = EmptyMap
    /\ adds' = << >>
    /\ upds' = << >>
    /\ dels' = << >>
    /\ fed' = 0
    /\ jobs' = << >>
    /\ closed' = FALSE
    /\ wk' = [w \in Workers |-> OffWorker]
    /\ state' = EmptyMap
    /\ stateMu' = 0
    /\ processed' = 0
    /\ okAdd' = 0
    /\ okUpd' = 0
    /\ okDel' = 0
    /\ failed' = 0
    /\ issued' = {}
    /\ outcome' = NoOutcome
    /\ snapshot' = {}
    /\ UNCHANGED << dbUsers, target, mode, concurrency, reseed, client, rpc, disk,
                    proc, reporter, clock, snapDir, snapRuns, callers, mu,
                    plane, legs, dbM, defFlow, retries >>

-----------------------------------------------------------------------------
(* Sync: the worker goroutines (lines 95-144) *)

\* A receive that leaves the job in the channel.
WorkerRecvKeeps(w) ==
    /\ wk[w].pc = "recv"
    /\ jobs # << >>
    /\ wk' = [wk EXCEPT ![w] =
                Worker("call", Head(jobs), 0, FirstLeg(Head(jobs)), "nil", FALSE)]
    /\ jobs' = jobs
    /\ UNCHANGED << dbUsers, target, mode, concurrency, reseed, client, pc, again,
                    prev, adds, upds, dels, fed, closed, state, stateMu,
                    processed, okAdd, okUpd, okDel, failed, ret, prevRet, issued,
                    outcome, snapshot, rpc, disk,
                    proc, reporter, clock, snapDir, snapRuns, callers, mu,
                    plane, legs, dbM, defFlow, retries >>

\* for j := range jobs: take the next job.
WorkerRecv(w) ==
    /\ wk[w].pc = "recv"
    /\ jobs # << >>
    /\ wk' = [wk EXCEPT ![w] =
                Worker("call", Head(jobs), 0, FirstLeg(Head(jobs)), "nil", FALSE)]
    /\ jobs' = Tail(jobs)
    /\ UNCHANGED << dbUsers, target, mode, concurrency, reseed, client, pc, again,
                    prev, adds, upds, dels, fed, closed, state, stateMu,
                    processed, okAdd, okUpd, okDel, failed, ret, prevRet, issued,
                    outcome,
                    snapshot, rpc, disk,
                    proc, reporter, clock, snapDir, snapRuns, callers, mu,
                    plane, legs, dbM, defFlow, retries >>

\* The range loop ends on the closed, drained channel; wg.Done().
WorkerExit(w) ==
    /\ wk[w].pc = "recv"
    /\ jobs = << >>
    /\ closed
    /\ wk' = [wk EXCEPT ![w].pc = "exit"]
    /\ UNCHANGED << dbUsers, target, mode, concurrency, reseed, client, pc, again,
                    prev, adds, upds, dels, fed, jobs, closed, state, stateMu,
                    processed, okAdd, okUpd, okDel, failed, ret, prevRet, issued,
                    outcome,
                    snapshot, rpc, disk,
                    proc, reporter, clock, snapDir, snapRuns, callers, mu,
                    plane, legs, dbM, defFlow, retries >>

\* A worker that goes on to the add leg of an Update after a failed Remove.
AfterCallAddsAnyway(wr, r) ==
    IF wr.job.typ = "upd" /\ wr.leg = "remove"
    THEN [wr EXCEPT !.leg = "add", !.e = r.err]
    ELSE IF r.err # "nil" THEN [wr EXCEPT !.pc = "sleep", !.e = r.err, !.tol = FALSE]
    ELSE [wr EXCEPT !.pc = "lock", !.e = "nil", !.tol = r.tol]

\* What the worker does after the client call of one leg returned r:
\* the add leg follows a successful remove leg of an Update; a nil error ends
\* withRetry; any error leads to the backoff sleep.
AfterCall(wr, r) ==
    IF r.err # "nil" THEN [wr EXCEPT !.pc = "sleep", !.e = r.err, !.tol = FALSE]
    ELSE IF wr.job.typ = "upd" /\ wr.leg = "remove" THEN [wr EXCEPT !.leg = "add"]
    ELSE [wr EXCEPT !.pc = "lock", !.e = "nil", !.tol = r.tol]

\* Every result one client call of a leg can have, over all outcomes of the
\* RPCs on the tags.
CallResults(c, j, leg) ==
    IF leg = "add"
    THEN { addUser(c, AddArg(j), outs) : outs \in [Tags -> AddOutcomes] }
    ELSE { Remove(c, outs) : outs \in [Tags -> RemoveOutcomes] }

\* One client call of the function withRetry runs: Remove(old.Email) or
\* addUser(new), over all tags.
WorkerCall(w) ==
    /\ wk[w].pc = "call"
    /\ \E r \in CallResults(client, wk[w].job, wk[w].leg) :
         /\ wk' = [wk EXCEPT ![w] = AfterCall(wk[w], r)]
         /\ issued' = issued \cup
                (IF r.calls > 0 THEN { << wk[w].leg, JobID(wk[w].job) >> } ELSE {})
    /\ UNCHANGED << dbUsers, target, mode, concurrency, reseed, client, pc, again,
                    prev, adds, upds, dels, fed, jobs, closed, state, stateMu,
                    processed, okAdd, okUpd, okDel, failed, ret, prevRet,
                    outcome,
                    snapshot, rpc, disk,
                    proc, reporter, clock, snapDir, snapRuns, callers, mu,
                    plane, legs, dbM, defFlow, retries >>

\* A withRetry whose caller updates the working copy without testing e == nil.
AfterSleepCommitsFailed(wr) ==
    IF wr.i + 1 < RetryBudget
    THEN [wr EXCEPT !.pc = "call", !.i = wr.i + 1, !.leg = FirstLeg(wr.job),
                    !.e = "nil"]
    ELSE [wr EXCEPT !.pc = "lock", !.i = wr.i + 1]

\* withRetry after a failed attempt: sleep, then the next attempt, or return
\* the last error when the budget is used up.
AfterSleep(wr) ==
    IF wr.i + 1 < RetryBudget
    THEN [wr EXCEPT !.pc = "call", !.i = wr.i + 1, !.leg = FirstLeg(wr.job),
                    !.e = "nil"]
    ELSE [wr EXCEPT !.pc = "count", !.i = wr.i + 1]

WorkerWake(w) ==
    /\ wk[w].pc = "sleep"
    /\ wk' = [wk EXCEPT ![w] = AfterSleep(wk[w])]
    /\ UNCHANGED << dbUsers, target, mode, concurrency, reseed, client, pc, again,
                    prev, adds, upds, dels, fed, jobs, closed, state, stateMu,
                    processed, okAdd, okUpd, okDel, failed, ret, prevRet, issued,
                    outcome,
                    snapshot, rpc, disk,
                    proc, reporter, clock, snapDir, snapRuns, callers, mu,
                    plane, legs, dbM, defFlow, retries >>

\* A Lock that does not wait for the holder of stateMu.
WorkerLockBarges(w) ==
    /\ wk[w].pc = "lock"
    /\ stateMu' = w
    /\ wk' = [wk EXCEPT ![w].pc = "commit"]
    /\ UNCHANGED << dbUsers, target, mode, concurrency, reseed, client, pc, again,
                    prev, adds, upds, dels, fed, jobs, closed, state,
                    processed, okAdd, okUpd, okDel, failed, ret, prevRet, issued,
                    outcome, snapshot, rpc, disk,
                    proc, reporter, clock, snapDir, snapRuns, callers, mu,
                    plane, legs, dbM, defFlow, retries >>

\* stateMu.Lock()
WorkerLock(w) ==
    /\ wk[w].pc = "lock"
    /\ stateMu = 0
    /\ stateMu' = w
    /\ wk' = [wk EXCEPT ![w].pc = "commit"]
    /\ UNCHANGED << dbUsers, target, mode, concurrency, reseed, client, pc, again,
                    prev, adds, upds, dels, fed, jobs, closed, state,
                    processed, okAdd, okUpd, okDel, failed, ret, prevRet, issued,
                    outcome,
                    snapshot, rpc, disk,
                    proc, reporter, clock, snapDir, snapRuns, callers, mu,
                    plane, legs, dbM, defFlow, retries >>

\* The mutation of the working copy, then stateMu.Unlock().
WorkerCommit(w) ==
    /\ wk[w].pc = "commit"
    /\ state' = ApplyJob(state, wk[w].job)
    /\ stateMu' = 0
    /\ wk' = [wk EXCEPT ![w].pc = "count"]
    /\ UNCHANGED << dbUsers, target, mode, concurrency, reseed, client, pc, again,
                    prev, adds, upds, dels, fed, jobs, closed,
                    processed, okAdd, okUpd, okDel, failed, ret, prevRet, issued,
                    outcome,
                    snapshot, rpc, disk,
                    proc, reporter, clock, snapDir, snapRuns, callers, mu,
                    plane, legs, dbM, defFlow, retries >>

\* A count that adds to failed in the del case only.
CounterOfFailedInDelOnly(typ, e) ==
    IF e # "nil" THEN (IF typ = "del" THEN "failed" ELSE "none")
    ELSE IF typ = "add" THEN "okAdd"
    ELSE IF typ = "upd" THEN "okUpd"
    ELSE IF typ = "del" THEN "okDel"
    ELSE "none"

\* The counter a finished job adds one to: its ok counter when withRetry
\* returned nil, failed otherwise (lines 105, 118, 126, 129-131).
CounterOf(typ, e) ==
    IF e # "nil" THEN "failed"
    ELSE IF typ = "add" THEN "okAdd"
    ELSE IF typ = "upd" THEN "okUpd"
    ELSE IF typ = "del" THEN "okDel"
    ELSE "none"

Bump(name, ctr, val) == IF ctr = name THEN val + 1 ELSE val

\* The history of finished jobs extended with the job worker wr just ended:
\* its type, the counter it added to, the class of withRetry's error and
\* whether its last add call skipped an "already exists".
Record(h, wr) ==
    [k \in DOMAIN h \cup {JobID(wr.job)} |->
        IF k = JobID(wr.job)
        THEN [typ |-> wr.job.typ, ctr |-> CounterOf(wr.job.typ, wr.e),
              e |-> wr.e, tol |-> wr.tol]
        ELSE h[k]]

\* The atomic adds that end a job: one outcome counter, then processed.
WorkerCount(w) ==
    /\ wk[w].pc = "count"
    /\ LET c == CounterOf(wk[w].job.typ, wk[w].e)
       IN  /\ okAdd' = Bump("okAdd", c, okAdd)
           /\ okUpd' = Bump("okUpd", c, okUpd)
           /\ okDel' = Bump("okDel", c, okDel)
           /\ failed' = Bump("failed", c, failed)
    /\ processed' = processed + 1
    /\ outcome' = Record(outcome, wk[w])
    /\ wk' = [wk EXCEPT ![w] = IdleWorker]
    /\ UNCHANGED << dbUsers, target, mode, concurrency, reseed, client, pc, again,
                    prev, adds, upds, dels, fed, jobs, closed, state, stateMu,
                    ret, prevRet, issued,
                    snapshot, rpc, disk,
                    proc, reporter, clock, snapDir, snapRuns, callers, mu,
                    plane, legs, dbM, defFlow, retries >>

-----------------------------------------------------------------------------
(* Specification of whole runs *)

RunModes == {"replace", "upsert", ""}

Init ==
    /\ dbUsers \in Maps(IDs, "stored")
    /\ target \in Maps(IDs, "feed")
    /\ mode \in RunModes
    /\ concurrency \in 0..MaxConcurrency
    /\ reseed = FALSE
    /\ client \in Clients
    /\ pc = "start"
    /\ again = FALSE
    /\ prev = EmptyMap
    /\ adds = << >>
    /\ upds = << >>
    /\ dels = << >>
    /\ fed = 0
    /\ jobs = << >>
    /\ closed = FALSE
    /\ wk = [w \in Workers |-> OffWorker]
    /\ state = EmptyMap
    /\ stateMu = 0
    /\ processed = 0
    /\ okAdd = 0
    /\ okUpd = 0
    /\ okDel = 0
    /\ failed = 0
    /\ ret = NoSummary
    /\ prevRet = NoSummary
    /\ issued = {}
    /\ outcome = NoOutcome
    /\ snapshot = {}
    /\ proc = NoProc
    /\ reporter = NoReporter
    /\ clock = 0
    /\ snapDir = EmptyDir
    /\ snapRuns = 0
    /\ callers = NoCallers
    /\ mu = 0
    /\ plane = NoPlane
    /\ legs = {}
    /\ dbM = EmptyMap
    /\ defFlow = ""
    /\ retries = 0
    /\ disk = NoDisk
    /\ rpc = NoCall

Next ==
    \/ SyncStart
    \/ Feed
    \/ CloseJobs
    \/ WaitWorkers
    \/ Persist
    \/ WriteSnapshot
    \/ SyncReturn
    \/ NextRun
    \/ \E w \in Workers : WorkerRecv(w)
    \/ \E w \in Workers : WorkerExit(w)
    \/ \E w \in Workers : WorkerCall(w)
    \/ \E w \in Workers : WorkerWake(w)
    \/ \E w \in Workers : WorkerLock(w)
    \/ \E w \in Workers : WorkerCommit(w)
    \/ \E w \in Workers : WorkerCount(w)

Spec == Init /\ [][Next]_vars

-----------------------------------------------------------------------------
(* Specification of the planning prologue alone, over the wide universe *)

\* Sync's prologue: mode default, snapshot, diff, and the reseed rule.
PlanStep ==
    /\ pc = "plan"
    /\ \E tOrder \in WideOrders, pOrder \in WideOrders :
         LET m == DefaultMode(mode)
             p == Snapshot(dbUsers)
             d == plan(p, target, m, reseed, tOrder, pOrder)
         IN  /\ mode' = m
             /\ prev' = p
             /\ adds' = d.adds
             /\ upds' = d.upds
             /\ dels' = d.dels
    /\ pc' = "planned"
    /\ UNCHANGED << dbUsers, target, concurrency, reseed, client, again, fed,
                    jobs, closed, wk, state, stateMu, processed, okAdd, okUpd,
                    okDel, failed, ret, prevRet, issued, outcome,
                    snapshot, rpc, disk,
                    proc, reporter, clock, snapDir, snapRuns, callers, mu,
                    plane, legs, dbM, defFlow, retries >>

InitDiff ==
    /\ dbUsers \in Maps(WideIDs, "wideStored")
    /\ target \in Maps(WideIDs, "wideDesired")
    /\ mode \in Modes
    /\ reseed \in BOOLEAN
    /\ concurrency = 1
    /\ client = "part001"
    /\ pc = "plan"
    /\ again = FALSE
    /\ prev = EmptyMap
    /\ adds = << >>
    /\ upds = << >>
    /\ dels = << >>
    /\ fed = 0
    /\ jobs = << >>
    /\ closed = FALSE
    /\ wk = [w \in Workers |-> OffWorker]
    /\ state = EmptyMap
    /\ stateMu = 0
    /\ processed = 0
    /\ okAdd = 0
    /\ okUpd = 0
    /\ okDel = 0
    /\ failed = 0
    /\ ret = NoSummary
    /\ prevRet = NoSummary
    /\ issued = {}
    /\ outcome = NoOutcome
    /\ snapshot = {}
    /\ proc = NoProc
    /\ reporter = NoReporter
    /\ clock = 0
    /\ snapDir = EmptyDir
    /\ snapRuns = 0
    /\ callers = NoCallers
    /\ mu = 0
    /\ plane = NoPlane
    /\ legs = {}
    /\ dbM = EmptyMap
    /\ defFlow = ""
    /\ retries = 0
    /\ disk = NoDisk
    /\ rpc = NoCall

NextDiff == PlanStep

SpecDiff == InitDiff /\ [][NextDiff]_vars

-----------------------------------------------------------------------------
(* Specification of whole runs of the Sync of src/internal/syncer/syncer.go. *)
(* It differs from the Sync of part_000 in what a successful job does: it    *)
(* calls db.Upsert or db.Delete, which change DB.Users and save the file,    *)
(* where part_000 changes the working copy; and it has no write after        *)
(* wg.Wait().  The variable state is not used by this Sync.                  *)

\* syncer.go lines 94-96, 105-107, 111-113: db.Upsert(j.u), db.Upsert(j.new)
\* or db.Delete(j.u.UID) after withRetry returned nil.  Upsert and Delete
\* hold DB.mu from the change of Users to the end of save.
WorkerStore(w) ==
    /\ wk[w].pc = "lock"
    /\ dbUsers' = ApplyJob(dbUsers, wk[w].job)
    /\ wk' = [wk EXCEPT ![w].pc = "count"]
    /\ UNCHANGED << target, mode, concurrency, reseed, client, pc, again,
                    prev, adds, upds, dels, fed, jobs, closed, state, stateMu,
                    processed, okAdd, okUpd, okDel, failed, ret, prevRet, issued,
                    outcome,
                    snapshot, rpc, disk,
                    proc, reporter, clock, snapDir, snapRuns, callers, mu,
                    plane, legs, dbM, defFlow, retries >>

\* syncer.go lines 156-165: after wg.Wait() the Store is not written.
AfterWait ==
    /\ pc = "persist"
    /\ pc' = "snap"
    /\ UNCHANGED << dbUsers, target, mode, concurrency, reseed, client, again, prev,
                    adds, upds, dels, fed, jobs, closed, wk, state, stateMu,
                    processed, okAdd, okUpd, okDel, failed, ret, prevRet, issued,
                    outcome,
                    snapshot, rpc, disk,
                    proc, reporter, clock, snapDir, snapRuns, callers, mu,
                    plane, legs, dbM, defFlow, retries >>

NextPerJob ==
    \/ SyncStart
    \/ Feed
    \/ CloseJobs
    \/ WaitWorkers
    \/ AfterWait
    \/ WriteSnapshot
    \/ SyncReturn
    \/ \E w \in Workers : WorkerRecv(w)
    \/ \E w \in Workers : WorkerExit(w)
    \/ \E w \in Workers : WorkerCall(w)
    \/ \E w \in Workers : WorkerWake(w)
    \/ \E w \in Workers : WorkerStore(w)
    \/ \E w \in Workers : WorkerCount(w)

SpecPerJob == Init /\ [][NextPerJob]_vars

-----------------------------------------------------------------------------
(* Specification of one client call taken alone: AddVLESS / AddVMess (by    *)
(* way of syncer.addUser) or Remove, in either source variant of the        *)
(* client, over every answer of every tag.                                  *)

\* The protocols a user record can carry, one of them unsupported.
CallProtos == {"vless", "vmess", "trojan"}

\* The call returns what the client computes from the answers of the tags.
ClientReturn ==
    /\ pc = "client"
    /\ ~rpc.returned
    /\ rpc' = [rpc EXCEPT
                 !.res = IF rpc.op = "add"
                         THEN addUser(client, User("a", "u1", rpc.proto, 1, ""),
                                      rpc.outs)
                         ELSE Remove(client, rpc.outs),
                 !.returned = TRUE]
    /\ UNCHANGED << dbUsers, target, mode, concurrency, reseed, client, pc, again,
                    prev, adds, upds, dels, fed, jobs, closed, wk, state, stateMu,
                    processed, okAdd, okUpd, okDel, failed, ret, prevRet, issued,
                    outcome, snapshot, disk,
                    proc, reporter, clock, snapDir, snapRuns, callers, mu,
                    plane, legs, dbM, defFlow, retries >>

InitClient ==
    /\ client \in Clients
    /\ rpc \in { ClientCall("add", p, outs, LocalError, FALSE) :
                    p \in CallProtos, outs \in [Tags -> AddOutcomes] }
               \cup
               { ClientCall("remove", "", outs, LocalError, FALSE) :
                    outs \in [Tags -> RemoveOutcomes] }
    /\ pc = "client"
    /\ dbUsers = EmptyMap
    /\ target = EmptyMap
    /\ mode = "replace"
    /\ concurrency = 1
    /\ reseed = FALSE
    /\ again = FALSE
    /\ prev = EmptyMap
    /\ adds = << >>
    /\ upds = << >>
    /\ dels = << >>
    /\ fed = 0
    /\ jobs = << >>
    /\ closed = FALSE
    /\ wk = [w \in Workers |-> OffWorker]
    /\ state = EmptyMap
    /\ stateMu = 0
    /\ processed = 0
    /\ okAdd = 0
    /\ okUpd = 0
    /\ okDel = 0
    /\ failed = 0
    /\ ret = NoSummary
    /\ prevRet = NoSummary
    /\ issued = {}
    /\ outcome = NoOutcome
    /\ snapshot = {}
    /\ proc = NoProc
    /\ reporter = NoReporter
    /\ clock = 0
    /\ snapDir = EmptyDir
    /\ snapRuns = 0
    /\ callers = NoCallers
    /\ mu = 0
    /\ plane = NoPlane
    /\ legs = {}
    /\ dbM = EmptyMap
    /\ defFlow = ""
    /\ retries = 0
    /\ disk = NoDisk

NextClient == ClientReturn

SpecClient == InitClient /\ [][NextClient]_vars

-----------------------------------------------------------------------------
(* Specification of one operation of the Store taken alone: DB.Upsert,      *)
(* DB.Delete (store.go) or DB.Save(m) (exported.go), step by step, with a   *)
(* crash of the process or an I/O error possible at every step, followed by *)
(* store.Open on the file that is left.                                     *)

\* Upsert (store.go:59-67), Delete (70-75) or Save (exported.go:22-38) is
\* called: Upsert and Delete change Users and save the DB; Save(m) leaves
\* Users alone and saves m.
StoreCall ==
    /\ pc = "store"
    /\ \/ \E id \in IDs : \E u \in UsersOf(id, "stored") :
             /\ dbUsers' = upsert(dbUsers, u)
             /\ disk' = [disk EXCEPT !.op = "Upsert", !.old = disk.path,
                                     !.data = EncodeDB(upsert(dbUsers, u)),
                                     !.want = upsert(dbUsers, u)]
       \/ \E id \in IDs :
             /\ dbUsers' = delete(dbUsers, id)
             /\ disk' = [disk EXCEPT !.op = "Delete", !.old = disk.path,
                                     !.data = EncodeDB(delete(dbUsers, id)),
                                     !.want = delete(dbUsers, id)]
       \/ \E m \in Maps(IDs, "stored") :
             /\ dbUsers' = dbUsers
             /\ disk' = [disk EXCEPT !.op = "Save", !.old = disk.path,
                                     !.data = EncodeMap(m), !.want = m]
    /\ pc' = "create"
    /\ UNCHANGED << target, mode, concurrency, reseed, client, again,
                    prev, adds, upds, dels, fed, jobs, closed, wk, state, stateMu,
                    processed, okAdd, okUpd, okDel, failed, ret, prevRet, issued,
                    outcome, snapshot, rpc,
                    proc, reporter, clock, snapDir, snapRuns, callers, mu,
                    plane, legs, dbM, defFlow, retries >>

\* The frame of the steps of a save.
StoreFrame ==
    UNCHANGED << dbUsers, target, mode, concurrency, reseed, client, again,
                 prev, adds, upds, dels, fed, jobs, closed, wk, state, stateMu,
                 processed, okAdd, okUpd, okDel, failed, ret, prevRet, issued,
                 outcome, snapshot, rpc,
                    proc, reporter, clock, snapDir, snapRuns, callers, mu,
                    plane, legs, dbM, defFlow, retries >>

StoreCreate ==
    /\ pc = "create"
    /\ disk' = createTmp(disk)
    /\ pc' = "write"
    /\ StoreFrame

StoreWrite ==
    /\ pc = "write"
    /\ disk' = writeSome(disk)
    /\ pc' = "writing"
    /\ StoreFrame

StoreWriteRest ==
    /\ pc = "writing"
    /\ disk' = writeRest(disk)
    /\ pc' = "close"
    /\ StoreFrame

\* f.Close()
StoreClose ==
    /\ pc = "close"
    /\ pc' = "rename"
    /\ UNCHANGED disk
    /\ StoreFrame

StoreRename ==
    /\ pc = "rename"
    /\ disk' = rename(disk)
    /\ pc' = "saved"
    /\ StoreFrame

\* A step of the save returns an error: the operation returns it and leaves
\* the files as they are (store.go:43-45, 48-54; exported.go:34-36).
StoreError ==
    /\ pc \in SaveSteps
    /\ pc' = "failed"
    /\ UNCHANGED disk
    /\ StoreFrame

\* The process crashes during or after the operation.
Crash ==
    /\ pc \in SaveSteps \cup {"saved", "failed"}
    /\ pc' = "crashed"
    /\ UNCHANGED disk
    /\ StoreFrame

\* store.Open (store.go:28-38) in the next process.
Reopen ==
    /\ pc \in {"saved", "failed", "crashed"}
    /\ dbUsers' = Open(disk.path)
    /\ pc' = "opened"
    /\ UNCHANGED << disk, target, mode, concurrency, reseed, client, again,
                    prev, adds, upds, dels, fed, jobs, closed, wk, state, stateMu,
                    processed, okAdd, okUpd, okDel, failed, ret, prevRet, issued,
                    outcome, snapshot, rpc,
                    proc, reporter, clock, snapDir, snapRuns, callers, mu,
                    plane, legs, dbM, defFlow, retries >>

\* The DB as store.Open left it: Users read from the file, or empty with no
\* file yet.
InitStore ==
    /\ dbUsers \in Maps(IDs, "stored")
    /\ disk \in { Disk(f, Absent, "", Absent, Absent, EmptyMap, FALSE) :
                     f \in {EncodeDB(dbUsers)} \cup
                           (IF dbUsers = EmptyMap THEN {Absent} ELSE {}) }
    /\ pc = "store"
    /\ target = EmptyMap
    /\ mode = "replace"
    /\ concurrency = 1
    /\ reseed = FALSE
    /\ client = "part001"
    /\ again = FALSE
    /\ prev = EmptyMap
    /\ adds = << >>
    /\ upds = << >>
    /\ dels = << >>
    /\ fed = 0
    /\ jobs = << >>
    /\ closed = FALSE
    /\ wk = [w \in Workers |-> OffWorker]
    /\ state = EmptyMap
    /\ stateMu = 0
    /\ processed = 0
    /\ okAdd = 0
    /\ okUpd = 0
    /\ okDel = 0
    /\ failed = 0
    /\ ret = NoSummary
    /\ prevRet = NoSummary
    /\ issued = {}
    /\ outcome = NoOutcome
    /\ snapshot = {}
    /\ proc = NoProc
    /\ reporter = NoReporter
    /\ clock = 0
    /\ snapDir = EmptyDir
    /\ snapRuns = 0
    /\ callers = NoCallers
    /\ mu = 0
    /\ plane = NoPlane
    /\ legs = {}
    /\ dbM = EmptyMap
    /\ defFlow = ""
    /\ retries = 0
    /\ rpc = NoCall

NextStore ==
    \/ StoreCall
    \/ StoreCreate
    \/ StoreWrite
    \/ StoreWriteRest
    \/ StoreClose
    \/ StoreRename
    \/ StoreError
    \/ Crash
    \/ Reopen

SpecStore == InitStore /\ [][NextStore]_vars

-----------------------------------------------------------------------------
(* Specifications that leave the variables of Sync alone *)

\* The variables of Sync hold the values of a Sync that is not running.
EngineAtRest ==
    /\ target = EmptyMap
    /\ mode = "replace"
    /\ concurrency = 1
    /\ reseed = FALSE
    /\ client = "part001"
    /\ again = FALSE
    /\ prev = EmptyMap
    /\ adds = << >>
    /\ upds = << >>
    /\ dels = << >>
    /\ fed = 0
    /\ jobs = << >>
    /\ closed = FALSE
    /\ wk = [w \in Workers |-> OffWorker]
    /\ state = EmptyMap
    /\ stateMu = 0
    /\ processed = 0
    /\ okAdd = 0
    /\ okUpd = 0
    /\ okDel = 0
    /\ failed = 0
    /\ ret = NoSummary
    /\ prevRet = NoSummary
    /\ issued = {}
    /\ outcome = NoOutcome
    /\ snapshot = {}
    /\ rpc = NoCall
    /\ reporter = NoReporter

\* The frame of a step that leaves the variables of Sync alone.
EngineFrame ==
    UNCHANGED << target, mode, concurrency, reseed, client, again, prev, adds,
                 upds, dels, fed, jobs, closed, wk, state, stateMu, processed,
                 okAdd, okUpd, okDel, failed, ret, prevRet, issued, outcome,
                 snapshot, rpc, reporter >>

-----------------------------------------------------------------------------
(* Specification of the worker pool of Sync with up to three jobs, so that  *)
(* the feed loop meets a full channel, together with the progress goroutine *)
(* (lines 70-92), which the specification of whole runs leaves out.         *)

MaxTicks == 1   \* progress lines the reporter logs before the model stops counting

\* The Store and the feed of the pool runs: every stored record differs from
\* the desired record of its ID, so that an ID in both is an Update.
Stored(ids) == [i \in ids |-> User(i, "u2", "vless", 1, "")]
Desired(ids) == [i \in ids |-> User(i, "u1", "vless", 1, "")]

\* The runs of the pool, as pairs of the IDs stored and the IDs desired: no
\* job; one Add; an Add, an Update and a Delete (in upsert mode an Add and an
\* Update).
PoolCases ==
    { << {}, {} >>, << {}, {"a"} >>, << {"a", "c"}, {"a", "b"} >> }

\* close(stopProg) (line 169) has run: it follows wg.Wait() in the same step.
stopProgClosed ==
    pc \in {"persist", "snap", "return"} \/ (pc = "done" /\ ~ret.err)

\* The frame of a step of the progress goroutine.
ReporterFrame ==
    UNCHANGED << dbUsers, target, mode, concurrency, reseed, client, pc, again,
                 prev, adds, upds, dels, fed, jobs, closed, wk, state, stateMu,
                 processed, okAdd, okUpd, okDel, failed, ret, prevRet, issued,
                 outcome, snapshot, rpc, disk,
                 proc, clock, snapDir, snapRuns, callers, mu, plane, legs, dbM,
                 defFlow, retries >>

\* Lines 72-77: the goroutine starts at some moment after the go statement;
\* with no job it returns at once.
ReporterBegin ==
    /\ reporter.pc = "off"
    /\ pc \in {"feed", "wait", "persist", "snap", "return"} \/ (pc = "done" /\ ~ret.err)
    /\ reporter' = [reporter EXCEPT !.pc = IF totalJobs = 0 THEN "exit" ELSE "select"]
    /\ ReporterFrame

\* Lines 80-87: the ticker fires and the counters are logged.
ReporterTick ==
    /\ reporter.pc = "select"
    /\ reporter.logged < MaxTicks
    /\ reporter' = [reporter EXCEPT !.logged = reporter.logged + 1]
    /\ ReporterFrame

\* Lines 88-89: stopProg is closed and the goroutine returns.
ReporterStop ==
    /\ reporter.pc = "select"
    /\ stopProgClosed
    /\ reporter' = [reporter EXCEPT !.pc = "exit"]
    /\ ReporterFrame

InitPool ==
    /\ \E c \in PoolCases : dbUsers = Stored(c[1]) /\ target = Desired(c[2])
    /\ mode \in {"replace", "upsert"}
    /\ concurrency \in 0..MaxConcurrency
    /\ reseed = FALSE
    /\ client = "internal"
    /\ pc = "start"
    /\ again = FALSE
    /\ prev = EmptyMap
    /\ adds = << >>
    /\ upds = << >>
    /\ dels = << >>
    /\ fed = 0
    /\ jobs = << >>
    /\ closed = FALSE
    /\ wk = [w \in Workers |-> OffWorker]
    /\ state = EmptyMap
    /\ stateMu = 0
    /\ processed = 0
    /\ okAdd = 0
    /\ okUpd = 0
    /\ okDel = 0
    /\ failed = 0
    /\ ret = NoSummary
    /\ prevRet = NoSummary
    /\ issued = {}
    /\ outcome = NoOutcome
    /\ snapshot = {}
    /\ rpc = NoCall
    /\ disk = NoDisk
    /\ proc = NoProc
    /\ reporter = NoReporter
    /\ clock = 0
    /\ snapDir = EmptyDir
    /\ snapRuns = 0
    /\ callers = NoCallers
    /\ mu = 0
    /\ plane = NoPlane
    /\ legs = {}
    /\ dbM = EmptyMap
    /\ defFlow = ""
    /\ retries = 0

NextPool ==
    \/ SyncStart
    \/ Feed
    \/ CloseJobs
    \/ WaitWorkers
    \/ Persist
    \/ WriteSnapshot
    \/ SyncReturn
    \/ ReporterBegin
    \/ ReporterTick
    \/ ReporterStop
    \/ \E w \in Workers : WorkerRecv(w)
    \/ \E w \in Workers : WorkerExit(w)
    \/ \E w \in Workers : WorkerCall(w)
    \/ \E w \in Workers : WorkerWake(w)
    \/ \E w \in Workers : WorkerLock(w)
    \/ \E w \in Workers : WorkerCommit(w)
    \/ \E w \in Workers : WorkerCount(w)

SpecPool == InitPool /\ [][NextPool]_vars

\* Scheduling: as long as some goroutine of the call can take a step, a step
\* is taken (a client call returns, a backoff sleep ends, a runnable
\* goroutine runs).  Nothing is assumed about which goroutine runs.
PoolFairness == WF_vars(NextPool)

SpecPoolFair == InitPool /\ [][NextPool]_vars /\ PoolFairness

-----------------------------------------------------------------------------
(* Specification of goroutines calling one store.DB concurrently: Upsert,   *)
(* Delete and Snapshot (store.go:59-86) step by step, each under DB.mu, as  *)
(* the workers of src/internal/syncer/syncer.go call them.  A step of the   *)
(* save can return an error.                                                *)

NCallers == 2         \* goroutines that call the DB
MaxCalls == 2         \* calls each goroutine makes

Goroutines == 1..NCallers

\* A goroutine that calls the DB: pc is its position, op the method it
\* calls or called last, u the argument (of Delete, its UID), err what the
\* call returned, out the map it got from Snapshot, shared whether that map
\* is the map DB.Users itself, left the calls it has still to make.
Caller(p, op, u, err, out, shared, left) ==
    [pc |-> p, op |-> op, u |-> u, err |-> err, out |-> out,
     shared |-> shared, left |-> left]
IdleCaller == Caller("idle", "", ZeroUser, "", EmptyMap, FALSE, MaxCalls)

\* The records the goroutines upsert, and the mappings the DB starts from.
ConcUsers == UsersOf("a", "stored") \cup UsersOf("b", "desired")
ConcStart == Maps({"a"}, "stored")

\* The positions between d.mu.Lock() and the deferred d.mu.Unlock().
Critical == {"locked"} \cup SaveSteps \cup {"unlock"}

\* What Snapshot returns: a new map filled from d.Users (store.go:81-85).
SnapshotCopy(users) == [out |-> users, shared |-> FALSE]

\* The frame of a step of a goroutine that calls the DB.
ConcFrame ==
    /\ EngineFrame
    /\ UNCHANGED << pc, proc, clock, snapDir, snapRuns, plane, legs, dbM, defFlow, retries >>

\* A goroutine calls Upsert(u), Delete(uid) or Snapshot().
Call(g) ==
    /\ callers[g].pc = "idle"
    /\ callers[g].left > 0
    /\ \E op \in {"Upsert", "Delete", "Snapshot"} :
       \E u \in IF op = "Upsert" THEN ConcUsers
                ELSE IF op = "Delete" THEN { User(id, "", "", 0, "") : id \in IDs }
                ELSE {ZeroUser} :
          callers' = [callers EXCEPT ![g] =
                         Caller("lock", op, u, "", EmptyMap, FALSE,
                                callers[g].left - 1)]
    /\ UNCHANGED << dbUsers, disk, mu >>
    /\ ConcFrame

\* A lock that is taken whether or not it is held.
LockBarges(g) ==
    /\ callers[g].pc = "lock"
    /\ mu' = g
    /\ callers' = [callers EXCEPT ![g].pc = "locked"]
    /\ UNCHANGED << dbUsers, disk >>
    /\ ConcFrame

\* d.mu.Lock() (lines 60, 71, 80): waits until no goroutine holds DB.mu.
Lock(g) ==
    /\ callers[g].pc = "lock"
    /\ mu = 0
    /\ mu' = g
    /\ callers' = [callers EXCEPT ![g].pc = "locked"]
    /\ UNCHANGED << dbUsers, disk >>
    /\ ConcFrame

\* d.Users[u.UID] = u (line 65) or delete(d.Users, uid) (line 73); the file
\* does not hold the change yet.
Mutate(g) ==
    /\ callers[g].pc = "locked"
    /\ callers[g].op \in {"Upsert", "Delete"}
    /\ dbUsers' = IF callers[g].op = "Upsert"
                  THEN upsert(dbUsers, callers[g].u)
                  ELSE delete(dbUsers, callers[g].u.UID)
    /\ disk' = [disk EXCEPT !.op = callers[g].op, !.old = disk.path,
                            !.renamed = FALSE]
    /\ callers' = [callers EXCEPT ![g].pc = "create"]
    /\ UNCHANGED mu
    /\ ConcFrame

\* Snapshot fills the map it returns (lines 81-85).
Copy(g) ==
    /\ callers[g].pc = "locked"
    /\ callers[g].op = "Snapshot"
    /\ callers' = [callers EXCEPT ![g].pc = "unlock", ![g].err = "nil",
                                  ![g].out = SnapshotCopy(dbUsers).out,
                                  ![g].shared = SnapshotCopy(dbUsers).shared]
    /\ UNCHANGED << dbUsers, disk, mu >>
    /\ ConcFrame

\* os.Create(tmp) (line 42)
ConcCreate(g) ==
    /\ callers[g].pc = "create"
    /\ disk' = createTmp(disk)
    /\ callers' = [callers EXCEPT ![g].pc = "write"]
    /\ UNCHANGED << dbUsers, mu >>
    /\ ConcFrame

\* enc.Encode(d) (line 48) encodes d.Users as it is when Encode runs.
ConcWrite(g) ==
    /\ callers[g].pc = "write"
    /\ disk' = writeSome([disk EXCEPT !.data = EncodeDB(dbUsers)])
    /\ callers' = [callers EXCEPT ![g].pc = "writing"]
    /\ UNCHANGED << dbUsers, mu >>
    /\ ConcFrame

ConcWriteRest(g) ==
    /\ callers[g].pc = "writing"
    /\ disk' = writeRest(disk)
    /\ callers' = [callers EXCEPT ![g].pc = "close"]
    /\ UNCHANGED << dbUsers, mu >>
    /\ ConcFrame

\* f.Close() (line 52)
ConcClose(g) ==
    /\ callers[g].pc = "close"
    /\ callers' = [callers EXCEPT ![g].pc = "rename"]
    /\ UNCHANGED << dbUsers, disk, mu >>
    /\ ConcFrame

\* return os.Rename(tmp, d.path) (line 55); renaming a file that is not
\* there is an error.
ConcRename(g) ==
    /\ callers[g].pc = "rename"
    /\ IF disk.tmp.kind = "absent"
       THEN /\ callers' = [callers EXCEPT ![g].pc = "unlock", ![g].err = "err"]
            /\ UNCHANGED disk
       ELSE /\ callers' = [callers EXCEPT ![g].pc = "unlock", ![g].err = "nil"]
            /\ disk' = rename(disk)
    /\ UNCHANGED << dbUsers, mu >>
    /\ ConcFrame

\* A step of the save returns an error (lines 43-45, 48-54, 55); the change
\* of d.Users stays.
ConcError(g) ==
    /\ callers[g].pc \in SaveSteps
    /\ callers' = [callers EXCEPT ![g].pc = "unlock", ![g].err = "err"]
    /\ UNCHANGED << dbUsers, disk, mu >>
    /\ ConcFrame

\* The deferred d.mu.Unlock() (lines 61, 72, 80) and the return.  disk.want
\* follows the calls in the order in which they return: it is the mapping
\* that the calls completed so far produce when made one after the other.
Unlock(g) ==
    /\ callers[g].pc = "unlock"
    /\ mu' = 0
    /\ callers' = [callers EXCEPT ![g].pc = "idle"]
    /\ disk' = [disk EXCEPT !.want =
                   IF callers[g].op = "Upsert" THEN upsert(disk.want, callers[g].u)
                   ELSE IF callers[g].op = "Delete"
                        THEN delete(disk.want, callers[g].u.UID)
                   ELSE disk.want]
    /\ UNCHANGED dbUsers
    /\ ConcFrame

\* The caller of Snapshot changes the map it got, while other goroutines go
\* on calling the DB; a map shared with the DB changes DB.Users too.
Modify(g) ==
    /\ callers[g].pc = "idle"
    /\ callers[g].op = "Snapshot"
    /\ \E m \in { upsert(callers[g].out, u) : u \in UsersOf("a", "stored") }
                \cup { delete(callers[g].out, "a") } :
          /\ m # callers[g].out
          /\ callers' = [callers EXCEPT ![g].out = m, ![g].op = "Modified"]
          /\ dbUsers' = IF callers[g].shared THEN m ELSE dbUsers
    /\ UNCHANGED << disk, mu >>
    /\ ConcFrame

\* The DB as store.Open left it, and goroutines that have not called it yet.
InitConc ==
    /\ dbUsers \in ConcStart
    /\ disk \in { Disk(f, Absent, "", Absent, Absent, dbUsers, FALSE) :
                     f \in {EncodeDB(dbUsers)} \cup
                           (IF dbUsers = EmptyMap THEN {Absent} ELSE {}) }
    /\ pc = "calls"
    /\ callers = [g \in Goroutines |-> IdleCaller]
    /\ mu = 0
    /\ plane = NoPlane
    /\ legs = {}
    /\ dbM = EmptyMap
    /\ defFlow = ""
    /\ retries = 0
    /\ proc = NoProc
    /\ clock = 0
    /\ snapDir = EmptyDir
    /\ snapRuns = 0
    /\ EngineAtRest

NextConc ==
    \E g \in Goroutines :
        \/ Call(g)
        \/ Lock(g)
        \/ Mutate(g)
        \/ Copy(g)
        \/ ConcCreate(g)
        \/ ConcWrite(g)
        \/ ConcWriteRest(g)
        \/ ConcClose(g)
        \/ ConcRename(g)
        \/ ConcError(g)
        \/ Unlock(g)
        \/ Modify(g)

SpecConc == InitConc /\ [][NextConc]_vars

-----------------------------------------------------------------------------
(* Specification of a run of Sync with one Update job, together with the    *)
(* control plane the client calls reach: what each tag holds under the ID   *)
(* of the job, and how AddUser and RemoveUser answer and change it.         *)

\* The record the Store holds and the record the feed gives for the ID "a".
OldUser == User("a", "u2", "vless", 1, "")
NewUser == User("a", "u1", "vless", 1, "")

\* One client call of a job: the leg, the user sent (the zero user stands for
\* the email alone, which is all Remove sends) and the class of the error.
Leg(leg, u, err) == [leg |-> leg, u |-> u, err |-> err]

\* The answers the tags can give to a leg when they hold pl: RemoveUser
\* succeeds on a tag that holds the user and answers "not found" on one that
\* does not; AddUser succeeds on a tag that does not hold the user and answers
\* "already exists" on one that does; any RPC can fail otherwise.
Answers(pl, leg) ==
    { outs \in [Tags -> IF leg = "add" THEN AddOutcomes ELSE RemoveOutcomes] :
        \A t \in Tags :
            /\ outs[t] = "ok" => ((leg = "add") <=> (pl[t] = ZeroUser))
            /\ outs[t] = "exists" => pl[t] # ZeroUser
            /\ outs[t] = "notfound" => pl[t] = ZeroUser }

\* What the tags hold after a leg that called the first n tags: a tag that
\* answered ok has applied the call, a tag of the set late has applied it
\* although the call returned an error (a deadline that passed on the way
\* back), every other tag holds what it held.
PlaneAfter(pl, leg, u, outs, n, late) ==
    [t \in Tags |->
        IF t <= n /\ (outs[t] = "ok" \/ (outs[t] = "err" /\ t \in late))
        THEN IF leg = "remove" THEN ZeroUser
             ELSE IF pl[t] = ZeroUser THEN u ELSE pl[t]
        ELSE pl[t]]

\* The result of one leg of job j with client c on the answers outs.
LegResult(c, j, leg, outs) ==
    IF leg = "add" THEN addUser(c, AddArg(j), outs) ELSE Remove(c, outs)

\* A worker that sends the old record when the add leg runs again.
LegUserRollsBack(j, leg, i) ==
    IF leg = "add" THEN (IF i > 0 /\ j.typ = "upd" THEN j.old ELSE AddArg(j))
    ELSE ZeroUser

\* The user a leg of job j sends in attempt i: Remove sends the email alone
\* (line 109), the add leg sends j.new, or j.u in an Add job (lines 100, 112).
LegUser(j, leg, i) == IF leg = "add" THEN AddArg(j) ELSE ZeroUser

\* WorkerCall together with its effect on the control plane.
UpdCall(w) ==
    /\ wk[w].pc = "call"
    /\ \E outs \in Answers(plane, wk[w].leg) :
       \E late \in SUBSET Tags :
          LET r == LegResult(client, wk[w].job, wk[w].leg, outs)
              u == LegUser(wk[w].job, wk[w].leg, wk[w].i)
          IN  /\ wk' = [wk EXCEPT ![w] = AfterCall(wk[w], r)]
              /\ issued' = issued \cup
                    (IF r.calls > 0 THEN { << wk[w].leg, JobID(wk[w].job) >> }
                     ELSE {})
              /\ plane' = PlaneAfter(plane, wk[w].leg, u, outs, r.calls, late)
              /\ legs' = legs \cup { Leg(wk[w].leg, u, r.err) }
    /\ UNCHANGED << dbUsers, target, mode, concurrency, reseed, client, pc, again,
                    prev, adds, upds, dels, fed, jobs, closed, state, stateMu,
                    processed, okAdd, okUpd, okDel, failed, ret, prevRet,
                    outcome, snapshot, rpc, disk,
                    proc, reporter, clock, snapDir, snapRuns, callers, mu,
                    dbM, defFlow, retries >>

\* The Store holds the old record, the feed gives the new one, and each tag
\* holds the old record or, where the control plane has lost it, nothing.
InitUpd ==
    /\ dbUsers = [k \in {"a"} |-> OldUser]
    /\ target = [k \in {"a"} |-> NewUser]
    /\ mode = "replace"
    /\ concurrency = 1
    /\ reseed = FALSE
    /\ client \in Clients
    /\ pc = "start"
    /\ again = FALSE
    /\ prev = EmptyMap
    /\ adds = << >>
    /\ upds = << >>
    /\ dels = << >>
    /\ fed = 0
    /\ jobs = << >>
    /\ closed = FALSE
    /\ wk = [w \in Workers |-> OffWorker]
    /\ state = EmptyMap
    /\ stateMu = 0
    /\ processed = 0
    /\ okAdd = 0
    /\ okUpd = 0
    /\ okDel = 0
    /\ failed = 0
    /\ ret = NoSummary
    /\ prevRet = NoSummary
    /\ issued = {}
    /\ outcome = NoOutcome
    /\ snapshot = {}
    /\ rpc = NoCall
    /\ disk = NoDisk
    /\ proc = NoProc
    /\ reporter = NoReporter
    /\ clock = 0
    /\ snapDir = EmptyDir
    /\ snapRuns = 0
    /\ callers = NoCallers
    /\ mu = 0
    /\ plane \in [Tags -> {OldUser, ZeroUser}]
    /\ legs = {}
    /\ dbM = EmptyMap
    /\ defFlow = ""
    /\ retries = 0

NextUpd ==
    \/ SyncStart
    \/ Feed
    \/ CloseJobs
    \/ WaitWorkers
    \/ Persist
    \/ WriteSnapshot
    \/ SyncReturn
    \/ \E w \in Workers : WorkerRecv(w)
    \/ \E w \in Workers : WorkerExit(w)
    \/ \E w \in Workers : UpdCall(w)
    \/ \E w \in Workers : WorkerWake(w)
    \/ \E w \in Workers : WorkerLock(w)
    \/ \E w \in Workers : WorkerCommit(w)
    \/ \E w \in Workers : WorkerCount(w)

SpecUpd == InitUpd /\ [][NextUpd]_vars

-----------------------------------------------------------------------------
(* Specification of the snapshot step of Sync (part_000:176-182) over the   *)
(* successive Sync calls of one process, which share snapDir, with the wall *)
(* clock advancing between them or not.                                     *)

MaxRuns == 3          \* Sync calls explored (one poll makes up to three)
MaxClock == 5         \* last instant of the wall clock explored
TicksPerSecond == 2   \* instants of the model's clock per second

\* The raw payloads a fetch can return.
Payloads == {"raw1", "raw2"}

\* time.Now().Unix(): the whole seconds of the wall clock.
Unix(t) == t \div TicksPerSecond

\* A copy of a directory with the file of timestamp ts holding payload raw
\* (os.WriteFile creates the file or replaces its content).
WriteStamped(stamped, ts, raw) ==
    [t \in DOMAIN stamped \cup {ts} |-> IF t = ts THEN raw ELSE stamped[t]]

\* The frame of a step of this specification.
SnapFrame ==
    /\ EngineFrame
    /\ UNCHANGED << dbUsers, pc, disk, proc, callers, mu, plane, legs, dbM,
                    defFlow, retries >>

\* The wall clock advances.
Tick ==
    /\ clock < MaxClock
    /\ clock' = clock + 1
    /\ UNCHANGED << snapDir, snapRuns >>
    /\ SnapFrame

\* Lines 176-182 of one Sync call: now := time.Now().Unix(); current.json
\* gets {revision: now, payload: raw}; snapshot-<now formatted to the
\* second>.json gets raw.
SnapshotStep ==
    /\ pc = "runs"
    /\ snapRuns < MaxRuns
    /\ \E raw \in Payloads :
         LET now == Unix(clock)
         IN  snapDir' = SnapDir(Current(now, raw),
                                WriteStamped(snapDir.stamped, now, raw))
    /\ snapRuns' = snapRuns + 1
    /\ UNCHANGED clock
    /\ SnapFrame

InitSnap ==
    /\ pc = "runs"
    /\ clock \in 0..1
    /\ snapDir = EmptyDir
    /\ snapRuns = 0
    /\ EngineAtRest
    /\ dbUsers = EmptyMap
    /\ disk = NoDisk
    /\ proc = NoProc
    /\ callers = NoCallers
    /\ mu = 0
    /\ plane = NoPlane
    /\ legs = {}
    /\ dbM = EmptyMap
    /\ defFlow = ""
    /\ retries = 0

NextSnap ==
    \/ Tick
    \/ SnapshotStep

SpecSnap == InitSnap /\ [][NextSnap]_vars

-----------------------------------------------------------------------------
(* Specification of the two commands as processes: main of xraysync         *)
(* (src/cmd/xraysync/main.go) and bulkAdd of xrayctl                        *)
(* (src/cmd/xrayctl/main.go), from their start to their exit status.  What  *)
(* a Sync call or RunBulk returns is an input here.                         *)

MaxPolls == 2   \* runs of runOnce explored when -interval > 0
MaxRows == 2    \* rows of the CSV file of bulk-add

\* The frame of a step of a command.
MainFrame ==
    /\ EngineFrame
    /\ UNCHANGED << dbUsers, disk, clock, snapDir, snapRuns, callers, mu, plane,
                    legs, dbM, defFlow, retries >>

\* The kinds of tags a fetch can list, in the order runOnce handles them.
TagKinds == << "vless", "reality", "vmess" >>

\* What one Sync call can return to runOnce: a Summary without failed jobs,
\* a Summary with a failed job, or the error of the dial.
SyncResults ==
    { Summary(1, 0, 0, 0, FALSE), Summary(1, 0, 0, 1, FALSE),
      Summary(0, 0, 0, 0, TRUE) }

\* xraysync, lines 37-40: log.Fatal when -token or -public-id is missing.
MainStart ==
    /\ pc = "main"
    /\ proc.cmd = "xraysync"
    /\ \E argsOK \in BOOLEAN :
         IF argsOK
         THEN pc' = "fetch" /\ UNCHANGED proc
         ELSE pc' = "exited" /\ proc' = [proc EXCEPT !.status = 1]
    /\ MainFrame

\* runOnce, lines 109-117: a failed fetch ends this runOnce.
Fetch ==
    /\ pc = "fetch"
    /\ \E fetchOK \in BOOLEAN, tags \in SUBSET Range(TagKinds) :
         /\ proc' = [proc EXCEPT !.polls = proc.polls + 1,
                                 !.tags = IF fetchOK THEN tags ELSE {}]
         /\ pc' = IF fetchOK THEN TagKinds[1] ELSE "ran"
    /\ MainFrame

\* The position of runOnce after the block of tag kind number k.
AfterKind(k) == IF k < Len(TagKinds) THEN TagKinds[k + 1] ELSE "ran"

\* runOnce, lines 119-161: the block of one kind of tags.  With tags of the
\* kind, Sync is called and its Summary or its error is logged.
RunSync ==
    /\ \E k \in DOMAIN TagKinds :
         /\ pc = TagKinds[k]
         /\ pc' = AfterKind(k)
         /\ IF TagKinds[k] \in proc.tags
            THEN \E r \in SyncResults :
                    proc' = [proc EXCEPT !.sums = Append(proc.sums, r)]
            ELSE UNCHANGED proc
    /\ MainFrame

\* main, lines 171-178: with -interval > 0 the ticker loop calls runOnce
\* again, and the loop has no exit.
Poll ==
    /\ pc = "ran"
    /\ proc.interval > 0
    /\ proc.polls < MaxPolls
    /\ pc' = "fetch"
    /\ UNCHANGED proc
    /\ MainFrame

\* main, lines 172 and 180-181: without -interval main prints OK and returns.
MainReturn ==
    /\ pc = "ran"
    /\ proc.interval = 0
    /\ pc' = "exited"
    /\ proc' = [proc EXCEPT !.status = 0]
    /\ MainFrame

\* xrayctl bulkAdd, lines 141-163: log.Fatal on an empty CSV file and on a
\* failed dial.
BulkStart ==
    /\ pc = "main"
    /\ proc.cmd = "xrayctl"
    /\ \E dialOK \in BOOLEAN :
         IF proc.rows > 0 /\ dialOK
         THEN pc' = "bulk" /\ UNCHANGED proc
         ELSE pc' = "exited" /\ proc' = [proc EXCEPT !.status = 1]
    /\ MainFrame

\* bulkAdd, line 165: RunBulk returns how many rows were added and how many
\* failed; every row is counted in one of the two (part_002:104-112).
BulkRun ==
    /\ pc = "bulk"
    /\ \E f \in 0..proc.rows :
         proc' = [proc EXCEPT !.ok = proc.rows - f, !.fail = f]
    /\ pc' = "bulkdone"
    /\ MainFrame

\* bulkAdd, lines 166-170: os.Exit(1) when a row failed.
BulkExit ==
    /\ pc = "bulkdone"
    /\ pc' = "exited"
    /\ proc' = [proc EXCEPT !.status = IF proc.fail > 0 THEN 1 ELSE 0]
    /\ MainFrame

InitMain ==
    /\ proc \in { Proc("xraysync", i, 0, {}, << >>, 0, 0, 0, -1) : i \in {0, 1} }
                \cup
                { Proc("xrayctl", 0, 0, {}, << >>, n, 0, 0, -1) : n \in 0..MaxRows }
    /\ pc = "main"
    /\ EngineAtRest
    /\ dbUsers = EmptyMap
    /\ disk = NoDisk
    /\ clock = 0
    /\ snapDir = EmptyDir
    /\ snapRuns = 0
    /\ callers = NoCallers
    /\ mu = 0
    /\ plane = NoPlane
    /\ legs = {}
    /\ dbM = EmptyMap
    /\ defFlow = ""
    /\ retries = 0

NextMain ==
    \/ MainStart
    \/ Fetch
    \/ RunSync
    \/ Poll
    \/ MainReturn
    \/ BulkStart
    \/ BulkRun
    \/ BulkExit

SpecMain == InitMain /\ [][NextMain]_vars

-----------------------------------------------------------------------------
(* Specification of batch.RunBulk (src/unnamed/part_002:78-127) as bulkAdd  *)
(* of xrayctl calls it: the job channel, the workers with their attempt     *)
(* loop, the feed loop and wg.Wait().  proc.ok and proc.fail hold the       *)
(* counters done and fail, which RunBulk returns.                           *)

MaxRetries == 1       \* largest value of the flag -retries explored

\* The rows LoadRows returned: n rows with different e-mails, vless and vmess
\* users in turn.
BulkRows(n) ==
    [i \in 1..n |->
        User(<< "a", "b", "c", "d", "e" >>[i], "u1",
             IF i % 2 = 1 THEN "vless" ELSE "vmess", 1, "")]

\* job{r: r}
BulkJob(r) == Job("add", r, ZeroUser, ZeroUser)

\* The frame of a step of RunBulk.
BulkFrame ==
    UNCHANGED << dbUsers, target, mode, concurrency, reseed, client, again,
                 prev, adds, upds, dels, state, stateMu, processed, okAdd,
                 okUpd, okDel, failed, ret, prevRet, snapshot, rpc, disk,
                 reporter, clock, snapDir, snapRuns, callers, mu, plane, legs,
                 dbM, defFlow, retries >>

\* Lines 79-80 and 115-118: make(chan job, concurrency*2) panics on a
\* negative size; then `concurrency` workers are started (none when it is 0).
BulkSpawn ==
    /\ pc = "bulk"
    /\ IF concurrency < 0
       THEN /\ pc' = "exited"
            /\ proc' = [proc EXCEPT !.status = 2]
            /\ UNCHANGED wk
       ELSE /\ pc' = "bulkfeed"
            /\ wk' = [w \in Workers |->
                         IF w <= concurrency THEN IdleWorker ELSE OffWorker]
            /\ UNCHANGED proc
    /\ UNCHANGED << jobs, fed, closed, issued, outcome >>
    /\ BulkFrame

\* Lines 119-121: jobs <- job{r: r}; the send waits while the channel holds
\* concurrency*2 jobs.  (A channel of capacity 0 takes a job only when a
\* worker is receiving, and capacity 0 means there is no worker.)
BulkFeed ==
    /\ pc = "bulkfeed"
    /\ fed < proc.rows
    /\ Len(jobs) < concurrency * QueueFactor
    /\ jobs' = Append(jobs, BulkJob(BulkRows(proc.rows)[fed + 1]))
    /\ fed' = fed + 1
    /\ UNCHANGED << pc, proc, wk, closed, issued, outcome >>
    /\ BulkFrame

\* Line 122: close(jobs)
BulkClose ==
    /\ pc = "bulkfeed"
    /\ fed = proc.rows
    /\ closed' = TRUE
    /\ pc' = "bulkwait"
    /\ UNCHANGED << proc, wk, jobs, fed, issued, outcome >>
    /\ BulkFrame

\* Lines 88-90: `for j := range jobs` receives a job; the attempt loop starts
\* with attempt = 0 and runs while attempt <= retries.
BulkRecv(w) ==
    /\ wk[w].pc = "recv"
    /\ jobs # << >>
    /\ wk' = [wk EXCEPT ![w] =
                 Worker(IF 0 <= retries THEN "call" ELSE "count",
                        Head(jobs), 0, "add", "nil", FALSE)]
    /\ jobs' = Tail(jobs)
    /\ UNCHANGED << pc, proc, fed, closed, issued, outcome >>
    /\ BulkFrame

\* The range loop ends on the closed, empty channel; the deferred wg.Done().
BulkWorkerExit(w) ==
    /\ wk[w].pc = "recv"
    /\ jobs = << >>
    /\ closed
    /\ wk' = [wk EXCEPT ![w].pc = "exited"]
    /\ UNCHANGED << pc, proc, jobs, fed, closed, issued, outcome >>
    /\ BulkFrame

\* Lines 91-101: one attempt, cli.AddVLESS or cli.AddVMess over all tags; a
\* nil error leaves the loop, any other leads to the sleep.
BulkCall(w) ==
    /\ wk[w].pc = "call"
    /\ \E outs \in [Tags -> AddOutcomes] :
         LET r == addUser(client, wk[w].job.u, outs)
         IN  /\ wk' = [wk EXCEPT ![w].e = r.err,
                                 ![w].pc = IF r.err = "nil" THEN "count"
                                           ELSE "sleep"]
             /\ issued' = issued \cup
                   { << wk[w].job.u.UID, wk[w].i, r.err >> }
    /\ UNCHANGED << pc, proc, jobs, fed, closed, outcome >>
    /\ BulkFrame

\* Lines 102 and 90: the sleep ends, attempt++, and the loop goes on while
\* attempt <= retries.
BulkWake(w) ==
    /\ wk[w].pc = "sleep"
    /\ wk' = [wk EXCEPT ![w].i = wk[w].i + 1,
                        ![w].pc = IF wk[w].i + 1 <= retries THEN "call"
                                  ELSE "count"]
    /\ UNCHANGED << pc, proc, jobs, fed, closed, issued, outcome >>
    /\ BulkFrame

\* Lines 104-112: fail is incremented when err is not nil, done otherwise.
BulkCount(w) ==
    /\ wk[w].pc = "count"
    /\ proc' = IF wk[w].e # "nil" THEN [proc EXCEPT !.fail = proc.fail + 1]
               ELSE [proc EXCEPT !.ok = proc.ok + 1]
    /\ outcome' = [k \in DOMAIN outcome \cup {wk[w].job.u.UID} |->
                      IF k = wk[w].job.u.UID
                      THEN IF wk[w].e # "nil" THEN "fail" ELSE "done"
                      ELSE outcome[k]]
    /\ wk' = [wk EXCEPT ![w] = IdleWorker]
    /\ UNCHANGED << pc, jobs, fed, closed, issued >>
    /\ BulkFrame

\* Lines 123-126: wg.Wait() returns when every worker has called wg.Done();
\* RunBulk returns done and fail.
BulkReturn ==
    /\ pc = "bulkwait"
    /\ \A w \in Workers : wk[w].pc \in {"off", "exited"}
    /\ pc' = "bulkdone"
    /\ UNCHANGED << proc, wk, jobs, fed, closed, issued, outcome >>
    /\ BulkFrame

\* bulkAdd, lines 166-170: os.Exit(1) when a row failed.
BulkEnd ==
    /\ pc = "bulkdone"
    /\ pc' = "exited"
    /\ proc' = [proc EXCEPT !.status = IF proc.fail > 0 THEN 1 ELSE 0]
    /\ UNCHANGED << wk, jobs, fed, closed, issued, outcome >>
    /\ BulkFrame

\* bulkAdd has read at least one row (line 157) and dialled; the flags
\* -concurrency and -retries are passed on as they were given.
InitBulk ==
    /\ proc \in { Proc("xrayctl", 0, 0, {}, << >>, n, 0, 0, -1) : n \in 1..MaxRows }
    /\ pc = "bulk"
    /\ concurrency \in -1..MaxConcurrency
    /\ retries \in -1..MaxRetries
    /\ client \in Clients
    /\ dbUsers = EmptyMap
    /\ target = EmptyMap
    /\ mode = "replace"
    /\ reseed = FALSE
    /\ again = FALSE
    /\ prev = EmptyMap
    /\ adds = << >>
    /\ upds = << >>
    /\ dels = << >>
    /\ fed = 0
    /\ jobs = << >>
    /\ closed = FALSE
    /\ wk = [w \in Workers |-> OffWorker]
    /\ state = EmptyMap
    /\ stateMu = 0
    /\ processed = 0
    /\ okAdd = 0
    /\ okUpd = 0
    /\ okDel = 0
    /\ failed = 0
    /\ ret = NoSummary
    /\ prevRet = NoSummary
    /\ issued = {}
    /\ outcome = NoOutcome
    /\ snapshot = {}
    /\ rpc = NoCall
    /\ disk = NoDisk
    /\ reporter = NoReporter
    /\ clock = 0
    /\ snapDir = EmptyDir
    /\ snapRuns = 0
    /\ callers = NoCallers
    /\ mu = 0
    /\ plane = NoPlane
    /\ legs = {}
    /\ dbM = EmptyMap
    /\ defFlow = ""

NextBulk ==
    \/ BulkSpawn
    \/ BulkFeed
    \/ BulkClose
    \/ BulkReturn
    \/ BulkEnd
    \/ \E w \in Workers : BulkRecv(w)
    \/ \E w \in Workers : BulkWorkerExit(w)
    \/ \E w \in Workers : BulkCall(w)
    \/ \E w \in Workers : BulkWake(w)
    \/ \E w \in Workers : BulkCount(w)

SpecBulk == InitBulk /\ [][NextBulk]_vars

\* Scheduling: as long as some goroutine of RunBulk can take a step, a step
\* is taken; a client call returns and a sleep ends.
BulkFairness == WF_vars(NextBulk)

SpecBulkFair == InitBulk /\ [][NextBulk]_vars /\ BulkFairness

-----------------------------------------------------------------------------
(* Specification of the polls of xraysync (src/cmd/xraysync/main.go) with   *)
(* an unchanged feed and Sync runs in which every job succeeds: runOnce     *)
(* builds the Desired Set of each kind of tags and calls Sync on the Store  *)
(* of the kind, dbV for vless and reality tags, dbM for vmess tags.         *)

\* The clients of the feed (res.Clients); one has no ID.
FeedClients ==
    { [Email |-> "a", ID |-> "u1"], [Email |-> "b", ID |-> "u1"],
      [Email |-> "c", ID |-> ""] }

\* const visionFlow (line 135)
visionFlow == "xtls-rprx-vision"

\* buildUsers / buildUsersWithFlow (lines 63-106): a user per client that has
\* an Email and an ID, with the given flow when the protocol is vless.
buildUsersWithFlow(clients, proto, flow) ==
    LET kept == { c \in clients : c.Email # "" /\ c.ID # "" }
    IN  [e \in { c.Email : c \in kept } |->
            LET c == CHOOSE x \in kept : x.Email = e
            IN  User(e, c.ID, proto, 1, IF proto = "vless" THEN flow ELSE "")]

\* The Desired Set runOnce builds in the block of a kind of tags: usersV with
\* the flag -flow (line 121), usersR with visionFlow (line 136), usersM
\* (line 149).
KindUsers(kind, clients, flow) ==
    IF kind = "vless" THEN buildUsersWithFlow(clients, "vless", flow)
    ELSE IF kind = "reality" THEN buildUsersWithFlow(clients, "vless", visionFlow)
    ELSE buildUsersWithFlow(clients, "vmess", flow)

\* The working copy after every job of the list js succeeded.
RECURSIVE ApplyJobs(_, _)
ApplyJobs(st, js) ==
    IF js = << >> THEN st ELSE ApplyJobs(ApplyJob(st, Head(js)), Tail(js))

\* The frame of a step of runOnce.
PollFrame ==
    UNCHANGED << concurrency, reseed, client, again, fed, jobs, closed, wk,
                 stateMu, processed, okAdd, okUpd, okDel, failed, ret, prevRet,
                 issued, outcome, snapshot, rpc, disk, reporter, clock, snapDir,
                 snapRuns, callers, mu, plane, legs, defFlow, retries >>

\* runOnce, lines 109-117: the fetch returns the same clients and tags.
PollFetch ==
    /\ pc = "fetch"
    /\ proc' = [proc EXCEPT !.polls = proc.polls + 1]
    /\ pc' = TagKinds[1]
    /\ UNCHANGED << dbUsers, dbM, mode, target, prev, adds, upds, dels, state >>
    /\ PollFrame

\* runOnce, lines 119-161: the block of one kind of tags.  With tags of the
\* kind, Sync runs on the Store of the kind: it plans against the Store's
\* Users, every job succeeds, and the working copy is written back.
PollSync ==
    /\ \E k \in DOMAIN TagKinds :
         /\ pc = TagKinds[k]
         /\ pc' = AfterKind(k)
         /\ IF TagKinds[k] \in proc.tags
            THEN \E tOrder \in RunOrders, pOrder \in RunOrders :
                   LET db == IF TagKinds[k] = "vmess" THEN dbM ELSE dbUsers
                       t  == KindUsers(TagKinds[k], FeedClients, defFlow)
                       p  == Snapshot(db)
                       m  == DefaultMode(mode)
                       pl == plan(p, t, m, reseed, tOrder, pOrder)
                       js == FeedList(pl.adds, pl.upds, pl.dels, m)
                       st == ApplyJobs(p, js)
                       n(typ) == Len(SelectSeq(js, LAMBDA j : j.typ = typ))
                   IN  /\ target' = t
                       /\ prev' = p
                       /\ adds' = pl.adds
                       /\ upds' = pl.upds
                       /\ dels' = pl.dels
                       /\ state' = st
                       /\ IF TagKinds[k] = "vmess"
                          THEN dbM' = ReplaceAll(dbM, st) /\ UNCHANGED dbUsers
                          ELSE dbUsers' = ReplaceAll(dbUsers, st) /\ UNCHANGED dbM
                       /\ proc' = [proc EXCEPT !.sums =
                                      Append(proc.sums,
                                             Summary(n("add"), n("upd"), n("del"),
                                                     0, FALSE))]
            ELSE UNCHANGED << dbUsers, dbM, target, prev, adds, upds, dels,
                              state, proc >>
    /\ UNCHANGED mode
    /\ PollFrame

\* main, lines 171-178: the ticker loop calls runOnce again.
PollAgain ==
    /\ pc = "ran"
    /\ proc.polls < MaxPolls
    /\ pc' = "fetch"
    /\ UNCHANGED << dbUsers, dbM, mode, target, prev, adds, upds, dels, state,
                    proc >>
    /\ PollFrame

\* xraysync started with -interval > 0; the two Stores as store.Open read
\* them, the flags -mode and -flow, and the kinds of tags the feed lists.
InitPoll ==
    /\ proc \in { Proc("xraysync", 1, 0, tags, << >>, 0, 0, 0, -1) :
                     tags \in SUBSET Range(TagKinds) }
    /\ pc = "fetch"
    /\ dbUsers \in {EmptyMap, [k \in {"a", "c"} |-> User(k, "u1", "vless", 1, "")]}
    /\ dbM \in {EmptyMap, [k \in {"a"} |-> User(k, "u2", "vmess", 1, "")]}
    /\ defFlow \in Flows
    /\ retries = 0
    /\ mode \in RunModes
    /\ target = EmptyMap
    /\ concurrency = 1
    /\ reseed = FALSE
    /\ client = "part001"
    /\ again = FALSE
    /\ prev = EmptyMap
    /\ adds = << >>
    /\ upds = << >>
    /\ dels = << >>
    /\ fed = 0
    /\ jobs = << >>
    /\ closed = FALSE
    /\ wk = [w \in Workers |-> OffWorker]
    /\ state = EmptyMap
    /\ stateMu = 0
    /\ processed = 0
    /\ okAdd = 0
    /\ okUpd = 0
    /\ okDel = 0
    /\ failed = 0
    /\ ret = NoSummary
    /\ prevRet = NoSummary
    /\ issued = {}
    /\ outcome = NoOutcome
    /\ snapshot = {}
    /\ rpc = NoCall
    /\ disk = NoDisk
    /\ reporter = NoReporter
    /\ clock = 0
    /\ snapDir = EmptyDir
    /\ snapRuns = 0
    /\ callers = NoCallers
    /\ mu = 0
    /\ plane = NoPlane
    /\ legs = {}

NextPoll ==
    \/ PollFetch
    \/ PollSync
    \/ PollAgain

SpecPoll == InitPoll /\ [][NextPoll]_vars

-----------------------------------------------------------------------------
(* Properties of the plan (SpecDiff) *)

\* The IDs of all jobs of the plan, in feed order.
PlanIDs ==
    [i \in DOMAIN adds |-> adds[i].UID]
    \o [i \in DOMAIN upds |-> upds[i].new.UID]
    \o [i \in DOMAIN dels |-> dels[i].UID]

\* C1: for every Applied Set, Desired Set and mode, the Add, Update and
\* Delete sets of the plan are pairwise disjoint by ID, no ID occurs twice
\* (at most one job per ID), and every ID of the Desired Set is in exactly one
\* of {no job, Add, Update}: never in Delete, never in both Add and Update.
C1_DiffPartition ==
    (pc = "planned" /\ ~reseed) =>
        /\ AddIDs \cap UpdIDs = {}
        /\ AddIDs \cap DelIDs = {}
        /\ UpdIDs \cap DelIDs = {}
        /\ NoRepeat(PlanIDs)
        /\ AddIDs \cup UpdIDs \subseteq DOMAIN target
        /\ \A id \in DOMAIN target :
              /\ id \notin DelIDs
              /\ ~(id \in AddIDs /\ id \in UpdIDs)

\* A plan without reseed that holds an Add, an Update and a Delete job.
C1_Witness ==
    /\ pc = "planned"
    /\ ~reseed
    /\ AddIDs # {}
    /\ UpdIDs # {}
    /\ DelIDs # {}

\* C4: with reseed, in either mode, the plan holds no Delete job and holds an
\* Add job, carrying the desired record, for every ID of the Desired Set that
\* is not scheduled as an Update, unchanged IDs included.
C4_ReseedPlan ==
    (pc = "planned" /\ reseed) =>
        /\ dels = << >>
        /\ \A id \in DOMAIN target :
              id \notin UpdIDs => \E i \in DOMAIN adds : adds[i] = target[id]

\* A reseed plan in replace mode with an applied ID missing from the Desired
\* Set, an Update, and an Add for an ID whose applied record equals the
\* desired one.
C4_Witness ==
    /\ pc = "planned"
    /\ reseed
    /\ EqualFoldReplace(mode)
    /\ DOMAIN prev \ DOMAIN target # {}
    /\ UpdIDs # {}
    /\ \E id \in DOMAIN target \cap DOMAIN prev :
          prev[id] = target[id] /\ id \in AddIDs

\* The equality rule of the data model: Flow counts for vless only.
differs(a, b) ==
    \/ a.UUID # b.UUID
    \/ a.Proto # b.Proto
    \/ a.Level # b.Level
    \/ (a.Proto = "vless" /\ a.Flow # b.Flow)

\* C5: for an ID in both sets, diff schedules an Update if and only if
\* SecretID, Protocol or Level differ, or the protocol is vless and Flow
\* differs; vmess records that differ only in Flow produce no job.
C5_UpdateIffDiffers ==
    (pc = "planned" /\ ~reseed) =>
        \A id \in DOMAIN prev \cap DOMAIN target :
            id \in UpdIDs <=> differs(prev[id], target[id])

\* C33: a blank mode plans as replace, "replace" is matched whatever its
\* case, and every other mode plans no Delete; the Delete jobs the feed sends
\* are those diff computed, in diff's order, so the feed sends
\* len(adds) + len(upds) + len(dels) jobs, the total counted for the run.
\* (Stated for runs without reseed.)
C33_ModeSelection ==
    [][(pc = "plan" /\ pc' = "planned" /\ ~reseed) =>
          LET js == FeedList(adds', upds', dels', mode')
              sent == SelectSeq(js, LAMBDA j : j.typ = "del")
          IN  /\ (IsBlank(mode) \/ EqualFoldReplace(mode)) =>
                    /\ { dels'[i].UID : i \in DOMAIN dels' }
                          = DOMAIN dbUsers \ DOMAIN target
                    /\ Len(dels') = Cardinality(DOMAIN dbUsers \ DOMAIN target)
              /\ ~(IsBlank(mode) \/ EqualFoldReplace(mode)) =>
                    dels' = << >> /\ sent = << >>
              /\ sent = [i \in 1..Len(dels') |->
                            Job("del", dels'[i], ZeroUser, ZeroUser)]
              /\ Len(js) = Len(adds') + Len(upds') + Len(dels')]_vars

\* A plan in the mode "Replace" that holds a Delete.
C33_Witness ==
    /\ pc = "planned"
    /\ ~reseed
    /\ mode = "Replace"
    /\ dels # << >>
    /\ adds # << >>

-----------------------------------------------------------------------------
(* Properties of whole runs (Spec) *)

\* The workers of the run have all finished and Sync has not failed.
PoolFinished == pc \in {"persist", "snap", "return"} \/ (pc = "done" /\ ~ret.err)

\* C2: in upsert mode no Delete job is produced or enqueued, no RemoveUser is
\* issued for an ID absent from the Desired Set, and every applied record
\* whose ID is absent from the Desired Set stays unchanged in the working
\* copy and in the Store to the end of the run.
C2_UpsertNeverDeletes ==
    (mode = "upsert" /\ pc # "start") =>
        /\ dels = << >>
        /\ \A i \in DOMAIN jobs : jobs[i].typ # "del"
        /\ \A w \in Workers : wk[w].job.typ # "del"
        /\ \A c \in issued : c[1] = "remove" => c[2] \in DOMAIN target
        /\ \A id \in DOMAIN prev \ DOMAIN target :
              /\ id \in DOMAIN dbUsers
              /\ dbUsers[id] = prev[id]
              /\ pc \in {"feed", "wait", "persist", "snap", "return"} =>
                    (id \in DOMAIN state /\ state[id] = prev[id])

\* An upsert run that ended after a successful Update while an applied ID is
\* missing from the Desired Set.
C2_Witness ==
    /\ mode = "upsert"
    /\ pc = "done"
    /\ ~again
    /\ ~ret.err
    /\ ret.Updated > 0
    /\ DOMAIN prev \ DOMAIN target # {}

\* The IDs whose Delete job ended with a successful RemoveUser.
RemovedIDs ==
    { id \in DOMAIN outcome : outcome[id].typ = "del" /\ outcome[id].e = "nil" }

C7_CountersSumToTotal ==
    /\ processed = Cardinality(DOMAIN outcome)
    /\ \A id \in DOMAIN outcome :
          outcome[id].ctr \in {"okAdd", "okUpd", "okDel", "failed"}
    /\ okAdd + okUpd + okDel + failed = processed
    /\ PoolFinished =>
          /\ processed = totalJobs
          /\ okAdd + okUpd + okDel + failed = totalJobs
    /\ (pc = "done" /\ ~ret.err) =>
          ret.Added + ret.Updated + ret.Removed + ret.Failed = totalJobs

\* A run of two workers that ended with one failed and one successful job.
C7_Witness ==
    /\ pc = "done"
    /\ ~ret.err
    /\ concurrency = 2
    /\ totalJobs = 2
    /\ ret.Failed = 1

\* C8: an Add job whose AddUser met "already exists" is counted neither in
\* Added nor in Failed (it is counted as skipped), and the working copy holds
\* the desired record of its ID.
C8_AlreadyExistsIsSkipped ==
    \A id \in DOMAIN outcome :
        (outcome[id].typ = "add" /\ (outcome[id].tol \/ outcome[id].e = "exists")) =>
            /\ outcome[id].ctr \notin {"okAdd", "failed"}
            /\ id \in DOMAIN state
            /\ state[id] = target[id]

\* C9: a Delete job, or the remove leg of an Update, whose RemoveUser failed
\* with "not found" does not add to Failed, and the ID of such a Delete job
\* leaves the working copy.
C9_NotFoundIsNoFault ==
    \A id \in DOMAIN outcome :
        (outcome[id].typ \in {"del", "upd"} /\ outcome[id].e = "notfound") =>
            /\ outcome[id].ctr # "failed"
            /\ outcome[id].typ = "del" => id \notin DOMAIN state

\* The ok counter of a job type.
OkCounter(typ) ==
    IF typ = "add" THEN "okAdd" ELSE IF typ = "upd" THEN "okUpd" ELSE "okDel"

\* C10: an idempotent-benign error is disposed of by the policy in force:
\* as a success (the client of part_001, which tolerates such answers) the
\* job is counted in Added/Updated/Removed; as a failure (the client of
\* internal/xray, which reports them) it is counted in Failed and the working
\* copy keeps what it held for the ID.
C10_DispositionFollowsPolicy ==
    \A id \in DOMAIN outcome :
        (outcome[id].tol \/ outcome[id].e \in {"exists", "notfound"}) =>
            /\ client = "part001" => outcome[id].ctr = OkCounter(outcome[id].typ)
            /\ client = "internal" =>
                  /\ outcome[id].ctr = "failed"
                  /\ id \in DOMAIN state <=> id \in DOMAIN prev
                  /\ id \in DOMAIN prev => state[id] = prev[id]

\* The working copy holds for id what the previous Applied Set held.
AsBefore(id) ==
    /\ id \in DOMAIN state <=> id \in DOMAIN prev
    /\ id \in DOMAIN prev => state[id] = prev[id]

\* Sync is between the copy of prev into state and its return.
Running == pc \in {"feed", "wait", "persist", "snap", "return"} \/ (pc = "done" /\ ~ret.err)

\* C11: the working copy is changed only by a job that succeeded, and only
\* once withRetry has returned nil: an ID whose record differs from the
\* previous Applied Set belongs to a job that ended ok or to a worker that
\* is past its successful retry loop; a failed job leaves its ID as before
\* (absent for an Add, the old record for an Update, present for a Delete).
C11_OnlySuccessMutatesState ==
    Running =>
        /\ \A id \in DOMAIN state \cup DOMAIN prev :
              ~AsBefore(id) =>
                  \/ id \in DOMAIN outcome /\ outcome[id].e = "nil"
                  \/ \E w \in Workers :
                        /\ wk[w].pc = "count"
                        /\ JobID(wk[w].job) = id
                        /\ wk[w].e = "nil"
        /\ \A id \in DOMAIN outcome :
              outcome[id].ctr = "failed" =>
                  /\ AsBefore(id)
                  /\ outcome[id].typ = "add" => id \notin DOMAIN state
                  /\ outcome[id].typ = "upd" => state[id] = prev[id] /\ state[id] # target[id]
                  /\ outcome[id].typ = "del" => id \in DOMAIN state

\* A finished run in which an Update failed, leaving the old record, while
\* another job succeeded and changed the working copy.
C11_Witness ==
    /\ pc = "done"
    /\ ~ret.err
    /\ \E id \in DOMAIN outcome :
          /\ outcome[id].typ = "upd"
          /\ outcome[id].ctr = "failed"
          /\ state[id] = prev[id]
    /\ \E id \in DOMAIN outcome :
          /\ outcome[id].e = "nil"
          /\ ~AsBefore(id)

\* C12: during a run the Store is not written before all workers have
\* finished: until the write that follows wg.Wait() the Store holds the
\* Applied Set loaded at the start of the run.
C12_StoreUntouchedBeforeEnd ==
    pc \in {"feed", "wait", "persist"} => dbUsers = prev

C14_SnapshotOnEveryRun ==
    pc = "done" => SnapshotFiles \subseteq snapshot

\* The IDs whose job ended in the given counter.
EndedIn(ctr) == { id \in DOMAIN outcome : outcome[id].ctr = ctr }

\* C15: a job that fails after its retries neither aborts the run nor skips
\* another job: when Sync has returned nil every job of the plan has been
\* executed, the failed jobs are counted in Failed and the others in their
\* own counters, and the Summary is returned; Sync returns an error if and
\* only if the dial failed (the run never reached close(jobs)).
C15_FailedJobDoesNotAbort ==
    pc = "done" =>
        /\ ret.err <=> ~closed
        /\ ~ret.err =>
              /\ DOMAIN outcome = AddIDs \cup UpdIDs \cup DelIDs
              /\ \A id \in DOMAIN outcome :
                    \E leg \in {"add", "remove"} : << leg, id >> \in issued
              /\ ret = Summary(Cardinality(EndedIn("okAdd")),
                               Cardinality(EndedIn("okUpd")),
                               Cardinality(EndedIn("okDel")),
                               Cardinality(EndedIn("failed")), FALSE)
              /\ \A id \in DOMAIN outcome :
                    outcome[id].ctr = "failed" <=> outcome[id].e # "nil"

\* A run of one worker that returned nil with one failed and one successful
\* job.
C15_Witness ==
    /\ pc = "done"
    /\ ~ret.err
    /\ concurrency = 1
    /\ ret.Failed = 1
    /\ ret.Added + ret.Updated + ret.Removed = 1

\* C16: in an Update job whose RemoveUser leg succeeded and whose AddUser
\* leg failed, the attempt that follows the backoff issues AddUser only:
\* RemoveUser is not issued again for that job.
C16_AddLegRetriedAlone ==
    [][\A w \in Workers :
          (/\ wk[w].pc = "sleep"
           /\ wk[w].job.typ = "upd"
           /\ wk[w].leg = "add"
           /\ wk'[w].pc = "call")
          => wk'[w].leg = "add"]_vars

\* C22: in an Update job the add leg of an attempt is entered only from the
\* remove leg of the same attempt, and only when Remove returned nil; a
\* Remove that returned an error ends the attempt (the worker goes to the
\* backoff sleep) without an AddUser.
C22_AddOnlyAfterRemoveSucceeded ==
    [][\A w \in Workers :
          /\ (/\ wk'[w].job.typ = "upd"
              /\ wk'[w].pc = "call"
              /\ wk'[w].leg = "add"
              /\ wk'[w] # wk[w])
             => /\ wk[w].job = wk'[w].job
                /\ wk[w].pc = "call"
                /\ wk[w].leg = "remove"
                /\ wk'[w].i = wk[w].i
                /\ wk'[w].e = "nil"
          /\ (/\ wk[w].job.typ = "upd"
              /\ wk[w].pc = "call"
              /\ wk[w].leg = "remove"
              /\ wk'[w].e # "nil")
             => /\ wk'[w].pc = "sleep"
                /\ wk'[w].leg = "remove"
                /\ issued' \ issued \subseteq { << "remove", JobID(wk[w].job) >> }]_vars

\* The first attempt of an Update ended with a failed Remove, and no AddUser
\* has been issued for its ID.
C22_Witness ==
    \E w \in Workers :
        /\ wk[w].job.typ = "upd"
        /\ wk[w].pc = "sleep"
        /\ wk[w].leg = "remove"
        /\ wk[w].i = 0
        /\ wk[w].e # "nil"
        /\ << "remove", JobID(wk[w].job) >> \in issued
        /\ << "add", JobID(wk[w].job) >> \notin issued

\* The workers inside the locked region of lines 102-104, 115-117, 123-125.
InCommit == { w \in Workers : wk[w].pc = "commit" }

\* C27: at most one worker at a time is inside a mutation of the working
\* copy; the worker inside it holds stateMu; every step that changes the
\* working copy during the pool's life is taken by the holder of stateMu;
\* and a worker that is in a client call or in a backoff sleep does not hold
\* stateMu.
C27_StateMutatedUnderLock ==
    /\ [](/\ Cardinality(InCommit) <= 1
          /\ \A w \in Workers : wk[w].pc = "commit" <=> stateMu = w
          /\ \A w \in Workers : wk[w].pc \in {"call", "sleep"} => stateMu # w)
    /\ [][(pc \in {"feed", "wait"} /\ state' # state) =>
             /\ stateMu # 0
             /\ wk[stateMu].pc = "commit"
             /\ state' = ApplyJob(state, wk[stateMu].job)
             /\ stateMu' = 0]_vars

\* Two workers have finished their client calls: one is inside the locked
\* region, the other waits for stateMu.
C27_Witness ==
    \E w, v \in Workers :
        /\ w # v
        /\ wk[w].pc = "commit"
        /\ stateMu = w
        /\ wk[v].pc = "lock"

\* The mapping p overridden by t on every key of t.
Overridden(p, t) ==
    [k \in DOMAIN p \cup DOMAIN t |-> IF k \in DOMAIN t THEN t[k] ELSE p[k]]

-----------------------------------------------------------------------------
(* Properties of one client call (SpecClient) *)

\* The tags whose RPC ended with an error the client does not tolerate:
\* every error for Remove and for the client of internal/xray; every error
\* but "already exists" for an add of the client of part_001.
Untolerated ==
    { t \in DOMAIN rpc.outs :
        /\ rpc.outs[t] # "ok"
        /\ ~(rpc.op = "add" /\ client = "part001" /\ alreadyExists(rpc.outs[t])) }

\* C17: a client call returns nil only if on every tag the RPC succeeded or
\* was tolerated as already existing; if the RPC of any tag ended with an
\* error that is not tolerated, the call returns an error.
C17_SuccessMeansEveryTag ==
    (pc = "client" /\ rpc.returned) =>
        /\ rpc.res.err = "nil" =>
              /\ rpc.res.calls = NTags
              /\ \A t \in Tags :
                    \/ rpc.outs[t] = "ok"
                    \/ rpc.op = "add" /\ rpc.outs[t] = "exists"
        /\ Untolerated # {} => rpc.res.err # "nil"
        /\ (rpc.op = "remove" \/ (client = "internal" /\ rpc.proto \in Protos)) =>
              (rpc.res.err = "nil" <=> \A t \in Tags : rpc.outs[t] = "ok")

\* A returned call in which the first tag succeeded and the last one failed.
C17_Witness ==
    /\ pc = "client"
    /\ rpc.returned
    /\ rpc.outs[1] = "ok"
    /\ rpc.outs[NTags] = "err"
    /\ rpc.res.err # "nil"

\* C18: a client call issues its RPC to every tag, also after the RPC of an
\* earlier tag failed, and the error it returns names every tag that failed.
C18_EveryTagCalledAndNamed ==
    (pc = "client" /\ rpc.returned /\ (rpc.op = "add" => rpc.proto \in Protos)) =>
        /\ rpc.res.calls = NTags
        /\ rpc.res.errTags = Untolerated

-----------------------------------------------------------------------------
(* Properties of one Store operation (SpecStore) *)

\* C19: at every step of a save, and so after a crash of the process at any
\* step, the file at the store path is complete and holds the previous
\* contents until the rename and the new contents from then on; it is never
\* empty or partially written.
C19_SaveIsCrashAtomic ==
    pc \in SaveSteps \cup {"saved", "failed", "crashed"} =>
        /\ disk.path.kind \notin {"empty", "partial"}
        /\ ~disk.renamed => disk.path = disk.old
        /\ disk.renamed => disk.path = disk.data

\* A crash while the temporary file was half written, over a store file
\* that held other contents than the ones being saved.
C19_Witness ==
    /\ pc = "crashed"
    /\ disk.tmp.kind = "partial"
    /\ disk.old.kind = "full"
    /\ disk.old # disk.data
    /\ disk.path = disk.old

\* C20: the file a completed Save(m) wrote is read back by Open as exactly
\* m, and the file a completed Upsert or Delete wrote is read back as
\* exactly the Users mapping of that moment.
C20_FileReadsBackAsWritten ==
    (pc = "opened" /\ disk.renamed) => dbUsers = disk.want

-----------------------------------------------------------------------------
(* Properties of the worker pool (SpecPool) *)

\* The worker goroutines that have been started, and those that hold a job.
Started == { w \in Workers : wk[w].pc # "off" }
Executing == { w \in Workers : wk[w].pc \in {"call", "sleep", "lock", "commit", "count"} }

\* C23: the number of worker goroutines, and so of jobs in execution, never
\* exceeds the concurrency in force, which is the configured one or 1 when
\* that is <= 0, and the channel never holds more than 2 * concurrency jobs.
C23_PoolAndQueueBounded ==
    /\ [](pc # "start" =>
            /\ concurrency >= 1
            /\ Cardinality(Started) <= concurrency
            /\ Cardinality(Executing) <= concurrency
            /\ Len(jobs) <= QueueFactor * concurrency)
    /\ [][pc = "start" =>
            concurrency' = IF concurrency <= 0 THEN 1 ELSE concurrency]_vars

\* A run with one worker in which the producer has a job left to send and
\* the channel is full, so that the send blocks.
C23_Witness ==
    /\ pc = "feed"
    /\ concurrency = 1
    /\ fed < totalJobs
    /\ Len(jobs) = QueueFactor * concurrency
    /\ Cardinality(Started) = 1

\* Sync has returned, every worker it started has exited and the progress
\* goroutine, if the call got as far as starting it, has returned.
Terminated ==
    /\ pc = "done"
    /\ \A w \in Workers : wk[w].pc \in {"off", "exit"}
    /\ reporter.pc = "exit" \/ (ret.err /\ reporter.pc = "off")

\* C24: under fair scheduling, with client calls that return, every call of
\* Sync terminates, whatever the concurrency, the number of jobs (none
\* included) and the answers of the control plane: from some moment on Sync
\* has returned, every worker it started has exited and the progress
\* goroutine has returned; and a feed loop that has begun gets to its end,
\* with every job sent and the channel closed.
C24_SyncTerminates ==
    /\ <>[]Terminated
    /\ (pc = "feed") ~> (pc = "wait" /\ closed /\ fed = totalJobs)

\* A call with one worker and three jobs, one of them failed, has returned,
\* and the progress goroutine has logged and returned.
C24_Witness ==
    /\ Terminated
    /\ ~ret.err
    /\ concurrency = 1
    /\ totalJobs = 3
    /\ ret.Failed = 1
    /\ reporter.logged > 0

\* The jobs sent on the channel so far, as pairs of type and ID: those still
\* in the channel, those a worker holds and those that have ended.
Sent ==
    { << jobs[i].typ, JobID(jobs[i]) >> : i \in DOMAIN jobs }
    \cup { << wk[w].job.typ, JobID(wk[w].job) >> : w \in Executing }
    \cup { << outcome[id].typ, id >> : id \in DOMAIN outcome }

SentIDs(typ) == { s[2] : s \in { t \in Sent : t[1] = typ } }

\* The place of a job type in the feed.
Rank(typ) == IF typ = "add" THEN 1 ELSE IF typ = "upd" THEN 2 ELSE 3

\* C25: jobs are sent in feed order: the channel holds its jobs with Adds
\* before Updates before Deletes, an Update has been sent only when every Add
\* has been sent, a Delete only when every Add and every Update has been
\* sent, and the channel is closed only when every job of the plan has been
\* sent.
C25_FeedOrder ==
    pc \in {"feed", "wait", "persist", "snap", "return"} =>
        /\ \A i, k \in DOMAIN jobs : i < k => Rank(jobs[i].typ) <= Rank(jobs[k].typ)
        /\ Cardinality(Sent) = fed
        /\ SentIDs("upd") # {} => SentIDs("add") = AddIDs
        /\ SentIDs("del") # {} => (SentIDs("add") = AddIDs /\ SentIDs("upd") = UpdIDs)
        /\ closed => /\ fed = totalJobs
                     /\ SentIDs("add") = AddIDs
                     /\ SentIDs("upd") = UpdIDs
                     /\ SentIDs("del") = DelIDs

\* Three jobs of three types were sent in feed order, and the Delete job has
\* ended while a worker still holds the Add job: completion does not follow
\* the feed order.
C25_Witness ==
    /\ pc = "wait"
    /\ AddIDs # {} /\ UpdIDs # {} /\ DelIDs # {}
    /\ \E id \in DOMAIN outcome : outcome[id].typ = "del"
    /\ \E w \in Executing : wk[w].job.typ = "add"

\* C26: every job the producer sent is received by exactly one worker and
\* executed once.  At every moment the jobs sent are, counted with
\* repetition, the jobs in the channel, the jobs held by a worker and the
\* jobs that have ended, no ID being in two of these places or twice in one;
\* a receive hands the head of the channel to one worker and removes it; and
\* when the pool has finished every job of the plan has ended, once.
C26_EachJobExecutedOnce ==
    /\ [](pc \in {"feed", "wait", "persist", "snap", "return"} =>
            /\ Len(jobs) + Cardinality(Executing) + processed = fed
            /\ Cardinality(Sent) = fed
            /\ processed = Cardinality(DOMAIN outcome)
            /\ pc # "feed" /\ pc # "wait" =>
                  /\ processed = totalJobs
                  /\ DOMAIN outcome = AddIDs \cup UpdIDs \cup DelIDs
                  /\ jobs = << >>
                  /\ Executing = {})
    /\ [][jobs' # jobs /\ Len(jobs') <= Len(jobs) =>
            /\ jobs' = Tail(jobs)
            /\ \E w \in Workers :
                  /\ wk[w].pc = "recv"
                  /\ wk'[w].pc = "call"
                  /\ wk'[w].job = Head(jobs)
                  /\ \A v \in Workers \ {w} : wk'[v] = wk[v]]_vars

\* A run of two workers and three jobs has ended with the three jobs done.
C26_Witness ==
    /\ pc = "done"
    /\ ~ret.err
    /\ concurrency = 2
    /\ totalJobs = 3
    /\ processed = 3
    /\ Cardinality(DOMAIN outcome) = 3

-----------------------------------------------------------------------------
(* Properties of concurrent calls of the Store (SpecConc) *)

\* The call of goroutine g returns in this step.
Returns(g) == callers[g].pc = "unlock" /\ callers'[g].pc = "idle"

\* C29: concurrent Upsert and Delete calls on one DB are serialized: at most
\* one goroutine is between Lock and Unlock and it holds DB.mu; while no call
\* is in progress DB.Users is the mapping that the calls completed so far
\* produce one after the other, and the file encodes it when the last of them
\* saved it; when an Upsert or a Delete returns without error the file at the
\* store path encodes exactly that mapping; Snapshot returns DB.Users as it is
\* under the lock, and a later change of the returned map by its caller
\* changes neither DB.Users nor the files.
C29_CallsSerialized ==
    /\ [](\A g, h \in Goroutines :
             callers[g].pc \in Critical /\ callers[h].pc \in Critical => g = h)
    /\ [](\A g \in Goroutines : callers[g].pc \in Critical => mu = g)
    /\ [](mu = 0 => dbUsers = disk.want)
    /\ [](mu = 0 /\ disk.renamed => disk.path = EncodeDB(dbUsers))
    /\ [][\A g \in Goroutines :
             Returns(g) /\ callers[g].op \in {"Upsert", "Delete"}
                        /\ callers[g].err = "nil"
             => /\ dbUsers' = disk'.want
                /\ disk'.path = EncodeDB(disk'.want)]_vars
    /\ [][\A g \in Goroutines :
             callers[g].pc = "locked" /\ callers'[g].pc = "unlock"
             => callers'[g].out = dbUsers]_vars
    /\ [][\A g \in Goroutines :
             callers[g].op = "Snapshot" /\ callers'[g].op = "Modified"
             => dbUsers' = dbUsers /\ disk' = disk]_vars

\* Both goroutines have made their calls: one ended with a Snapshot and
\* changed the map it got, the other with an Upsert that returned without
\* error after an earlier call had changed the file.
C29_Witness ==
    \E g, h \in Goroutines :
        /\ g # h
        /\ mu = 0
        /\ callers[g].pc = "idle" /\ callers[g].left = 0
        /\ callers[g].op = "Modified" /\ callers[g].out # dbUsers
        /\ callers[h].pc = "idle" /\ callers[h].left = 0
        /\ callers[h].op = "Upsert" /\ callers[h].err = "nil"
        /\ disk.renamed
        /\ disk.old.kind = "full" /\ disk.old # disk.path
        /\ disk.path = EncodeDB(dbUsers)

-----------------------------------------------------------------------------
(* Properties of a failed Update job (SpecUpd) *)

\* The Update job has ended in failed after a Remove leg that returned nil.
FailedAfterRemove ==
    /\ "a" \in DOMAIN outcome
    /\ outcome["a"].typ = "upd"
    /\ outcome["a"].ctr = "failed"
    /\ Leg("remove", ZeroUser, "nil") \in legs

\* What holds of the counters, the calls and the Applied Set once the Update
\* job has ended that way.
NoRollback ==
    /\ \A l \in legs : l.leg = "add" => l.u = NewUser
    /\ failed = 1 /\ okUpd = 0 /\ processed = 1
    /\ "a" \in DOMAIN state /\ state["a"] = OldUser
    /\ "a" \in DOMAIN dbUsers /\ dbUsers["a"] = OldUser

\* C31 as stated: when an Update job ends failed after its RemoveUser leg
\* succeeded at least once, no AddUser of the old record was issued, the job
\* is counted once in Failed, the working copy and the Store still hold the
\* old record, and no tag of the control plane holds the user.
C31_FailedUpdateLeavesUserAbsent ==
    FailedAfterRemove =>
        /\ NoRollback
        /\ \A t \in Tags : plane[t] = ZeroUser

\* C31 (amended): when an Update job ends failed after its RemoveUser leg
\* succeeded at least once, no AddUser of the old record was issued, the job
\* is counted once in Failed, the working copy and the Store still hold the
\* old record, and no tag of the control plane holds that record: each tag
\* holds nothing or, where an AddUser of the failed add leg was applied, the
\* new record.
C31_FailedUpdateLeavesOldRecordAbsent ==
    FailedAfterRemove =>
        /\ NoRollback
        /\ \A t \in Tags : plane[t] \in {ZeroUser, NewUser}

\* A run that returned after its Update job failed behind a successful
\* Remove, with the new record on one tag and nothing on another.
C31_Witness ==
    /\ pc = "done"
    /\ ~ret.err
    /\ ret.Failed = 1
    /\ FailedAfterRemove
    /\ \E t \in Tags : plane[t] = NewUser
    /\ \E t \in Tags : plane[t] = ZeroUser

-----------------------------------------------------------------------------
(* Properties of the polls of xraysync (SpecPoll) *)

\* The Summaries of the Sync runs of the polls after the first.
LaterSums == SubSeq(proc.sums, Cardinality(proc.tags) + 1, Len(proc.sums))

\* C32: with an unchanged feed, every Sync run of a poll that follows a poll
\* in which every job succeeded schedules no job (each job of these runs
\* succeeds, so a run's Summary counts the jobs it scheduled).
C32_SecondPollSchedulesNothing ==
    \A i \in DOMAIN LaterSums :
        LaterSums[i].Added + LaterSums[i].Updated + LaterSums[i].Removed = 0

-----------------------------------------------------------------------------
(* Properties of RunBulk (SpecBulk, SpecBulkFair) *)

\* The attempts made for the row of the given UID: << UID, attempt, err >>.
AttemptsOf(uid) == { t \in issued : t[1] = uid }

\* The UIDs of the rows passed to RunBulk.
RowIDs == { BulkRows(proc.rows)[i].UID : i \in 1..proc.rows }

\* C34: under fair scheduling and client calls that return, RunBulk returns
\* for every list of rows and every concurrency that is not negative, 0
\* included: the feed loop is never left waiting on a channel that no worker
\* drains.
C34_RunBulkReturns ==
    (concurrency >= 0) => <>(pc = "bulkdone")

\* C35: when RunBulk returns after a call with concurrency >= 1, done + fail
\* is the number of rows; each row was attempted at most retries + 1 times,
\* no attempt followed a successful one, and the row is counted in done
\* exactly when one of its attempts succeeded.
C35_RowsCountedByAttempts ==
    (pc = "bulkdone" /\ concurrency >= 1) =>
        /\ proc.ok + proc.fail = proc.rows
        /\ DOMAIN outcome = RowIDs
        /\ \A uid \in RowIDs :
              /\ Cardinality(AttemptsOf(uid)) <= retries + 1
              /\ \A t \in AttemptsOf(uid) :
                    t[3] = "nil" => \A s \in AttemptsOf(uid) : s[2] <= t[2]
              /\ (outcome[uid] = "done") <=>
                    (\E t \in AttemptsOf(uid) : t[3] = "nil")

-----------------------------------------------------------------------------
(* Properties of the snapshot step (SpecSnap) *)

\* C28: every Sync call that reaches the snapshot step leaves a timestamped
\* file of its own, so that N calls leave N timestamped files, and writes to
\* current.json a revision greater than the one the call before it wrote,
\* also when the calls follow each other within one second.
C28_OneSnapshotPerRun ==
    /\ [](Cardinality(DOMAIN snapDir.stamped) = snapRuns)
    /\ [][snapRuns' = snapRuns + 1 =>
            /\ DOMAIN snapDir'.stamped # DOMAIN snapDir.stamped
            /\ snapDir'.current.revision > snapDir.current.revision]_vars

-----------------------------------------------------------------------------
(* Properties of the commands (SpecMain) *)

\* C21: a process of the synchronization command that has ended after a run
\* with a failed job (Summary.Failed > 0) has a non-zero exit status, and so
\* has a process of bulk-add that has ended after a row failed.
C21_FailureGivesNonZeroExit ==
    pc = "exited" =>
        /\ (proc.cmd = "xraysync" /\ \E i \in DOMAIN proc.sums : proc.sums[i].Failed > 0)
              => proc.status # 0
        /\ (proc.cmd = "xrayctl" /\ proc.fail > 0) => proc.status # 0

=============================================================================
